---- MODULE Spec2Model ----
(***************************************************************************)
(* Coordination core of the dual-radio FHSS link: the anti-jam detector    *)
(* (anti_jamming.cpp), the mode switch (rc_channels.cpp / aj_switch.h) and *)
(* the Glock hop barrier (FHSS.h).                                         *)
(***************************************************************************)
EXTENDS Integers, Sequences, FiniteSets, TLC

VARIABLES
    aj,        \* struct aj_ctx_s, ring storage included
    clock,     \* the platform millis() value handed to the detector
    hop,       \* observer of the detector's hop callback
    aj_op,     \* the detector operation that ran last
    nops,      \* number of operations performed so far
    win,       \* observer of the window boundaries the detector processed
    aj_shift,  \* the context of the same run with every timestamp shifted
    sw,        \* struct aj_switch_ctx_s
    sw_obs,    \* the switch operation that ran last: arguments, result, notifications
    FHSSptr,                 \* hop cursor
    FHSSptrSynced,           \* mirrored cursor of the dual-radio barrier
    FHSSHopCycleArmed,       \* 1 = index not yet advanced this cycle
    FHSSSyncEpoch,           \* cycle counter
    FHSSuseDualBand,
    FHSSusePrimaryFreqBand,
    gl,        \* observer of the hop cycles: calls, advances and returned frequencies
    main,      \* the main loop's FHSSHopNextSynced call in progress
    g_anti_jam_enabled,      \* integration layer: controlled by the switch
    g_switch_prev_enabled,   \* integration layer: helper to detect transitions
    fc,        \* observer of the integration layer's last entry point
    ChannelData,             \* the 16 raw RC channel values of the receiver
    rc_read,   \* observer of the last rc_read_us call: channel and result
    reset_pending  \* stores of the main loop's aj_reset call not yet made

ajVars == <<aj, clock, hop, aj_op, nops, win, aj_shift>>
swVars == <<sw, sw_obs>>
bandVars == <<FHSSuseDualBand, FHSSusePrimaryFreqBand>>
glVars == <<FHSSptr, FHSSptrSynced, FHSSHopCycleArmed, FHSSSyncEpoch,
            FHSSuseDualBand, FHSSusePrimaryFreqBand, gl, main>>
fcVars == <<g_anti_jam_enabled, g_switch_prev_enabled, fc, ChannelData,
            rc_read, reset_pending>>
vars == <<aj, clock, hop, aj_op, nops, win, aj_shift, sw, sw_obs,
          FHSSptr, FHSSptrSynced, FHSSHopCycleArmed, FHSSSyncEpoch,
          FHSSuseDualBand, FHSSusePrimaryFreqBand, gl, main,
          g_anti_jam_enabled, g_switch_prev_enabled, fc, ChannelData,
          rc_read, reset_pending>>

(***************************************************************************)
(* Bounds of the model                                                     *)
(***************************************************************************)
MaxOps == 3        \* detector operations per behaviour of Spec
MaxFixedOps == 4   \* detector operations per behaviour of SpecFixed
MaxWhen == 2       \* largest when_ms handed to a switch operation
MaxCycles == 3     \* hop cycles begun per behaviour
MaxCalls == 3      \* FHSSHopNextSynced calls per hop cycle
MaxScenarioOps == 4  \* detector operations per behaviour of SpecScenario
MaxHealOps == 3      \* detector operations before the link turns clean
MaxWrapOps == 4      \* detector operations per behaviour of SpecWrap
MaxFacadeOps == 3  \* integration-layer entry points called per behaviour
primaryBandCount == 6     \* entries of the primary band's hop sequence
secondaryBandCount == 4   \* entries of the secondary band's hop sequence

(***************************************************************************)
(* Program constants                                                       *)
(***************************************************************************)
(* aj_timestamp_ms_t is uint32_t; TLC integers are 32-bit signed, so the   *)
(* timestamp word is modelled 30 bits wide: all timestamp arithmetic of    *)
(* the code is modular in the word size.                                   *)
TsModulus == 1073741824
DefaultWindowDurationMs == 1000
DefaultMinRecoMs == 500
ExtJamLimitByCountMs == 1000
StreakMax == 255
GroupSwitchScore == 80

AJ_STATE_NOT_JAMMED == 0
AJ_STATE_SUSPECT == 1
AJ_STATE_JAMMED == 2

AJ_WINDOW_BY_COUNT == 0
AJ_WINDOW_BY_TIME == 1

AJ_SWITCH_MODE_AUTO == 0
AJ_SWITCH_MODE_LOW == 1
AJ_SWITCH_MODE_HIGH == 2

FREQ_SPREAD_SCALE == 1
FHSS_RADIO_1 == 0
FHSS_RADIO_2 == 1

AJ_SW_RET_OK == 0
AJ_SW_RET_DENIED == 1
AJ_SW_RET_NOCHANGE == 2
AJ_SW_RET_INVALID == 3

(* no callback observed yet *)
NoFire == 0 - 1

(***************************************************************************)
(* Helpers                                                                 *)
(***************************************************************************)
Sub32(a, b) == (a - b) % TsModulus

(* rc_read_us without the clamp to 1000..2000 *)
rc_read_us_NoClamp(data, ch) ==
    IF ch < 1 \/ ch > 16 THEN 1500
    ELSE ((data[ch - 1] - 172) * 1000) \div 1639 + 1000

(* the RC channel ch (1-based) in microseconds; the int32_t division       *)
(* truncates toward zero                                                   *)
rc_read_us(data, ch) ==
    IF ch < 1 \/ ch > 16 THEN 1500
    ELSE LET n == (data[ch - 1] - 172) * 1000
             us == (IF n >= 0 THEN n \div 1639 ELSE 0 - ((0 - n) \div 1639))
                   + 1000
         IN IF us < 1000 THEN 1000 ELSE IF us > 2000 THEN 2000 ELSE us

u32_clamp(x, lo, hi) == IF x < lo THEN lo ELSE IF x > hi THEN hi ELSE x

(* window_duration_ms ? window_duration_ms : 1u *)
EffectiveDur(ctx) ==
    IF ctx.cfg.window_duration_ms # 0 THEN ctx.cfg.window_duration_ms ELSE 1

(* the ring slots holding the `count` live entries (those preceding head) *)
LiveSlots(ctx) ==
    {(ctx.head + ctx.capacity - k) % ctx.capacity : k \in 1..ctx.count}

RECURSIVE PruneLoop(_, _)
PruneLoop(ctx, cutoff) ==
    IF ctx.count > 0
    THEN LET e == ctx.entries[(ctx.head + ctx.capacity - ctx.count) % ctx.capacity]
         IN IF e.ts >= cutoff
            THEN ctx
            ELSE PruneLoop(
                   [ctx EXCEPT
                      !.bad_count = IF e.good = 0 /\ @ > 0 THEN @ - 1 ELSE @,
                      !.count = @ - 1],
                   cutoff)
    ELSE ctx

prune_old_by_time(ctx, now_ms) ==
    IF ctx.cfg.window_mode # AJ_WINDOW_BY_TIME
    THEN ctx
    ELSE LET dur == EffectiveDur(ctx)
             cutoff == IF now_ms > dur THEN now_ms - dur ELSE 0
         IN PruneLoop(ctx, cutoff)

(* the score without the external-jam bonus *)
calc_score_NoBonus(ctx) ==
    IF ctx.count > 0 THEN (ctx.bad_count * 100) \div ctx.count ELSE 0

calc_score(ctx) ==
    IF ctx.count > 0
    THEN LET pct == (ctx.bad_count * 100) \div ctx.count
         IN IF ctx.ext_jam_recent = 1 THEN u32_clamp(pct + 10, 0, 100) ELSE pct
    ELSE 0

is_window_jammy(ctx) ==
    IF ctx.bad_count < ctx.cfg.min_bad_packets
    THEN FALSE
    ELSE calc_score(ctx) >= ctx.cfg.jam_threshold_percent

(* JAMMED softened at any non-jammy boundary *)
HoldElapsed_Ignored(ctx, now_ms) == TRUE

(* the hold-time test of a non-jammy boundary in JAMMED *)
HoldElapsed(ctx, now_ms) ==
    Sub32(now_ms, ctx.last_jam_change_ms) >= ctx.cfg.jam_state_hold_time_ms

(* a non-jammy boundary that leaves the streak as it was *)
NonJammyStreak_Kept(ctx) == ctx.jam_streak

(* the streak after a non-jammy boundary *)
NonJammyStreak(ctx) == 0

on_window_boundary(ctx, now_ms) ==
    IF is_window_jammy(ctx)
    THEN LET streak == IF ctx.jam_streak < StreakMax
                       THEN ctx.jam_streak + 1 ELSE ctx.jam_streak
             c1 == [ctx EXCEPT !.jam_streak = streak]
         IN IF streak >= ctx.cfg.consecutive_windows_to_jam
            THEN IF ctx.state # AJ_STATE_JAMMED
                 THEN [c1 EXCEPT !.state = AJ_STATE_JAMMED,
                                 !.last_jam_change_ms = now_ms]
                 ELSE c1
            ELSE IF ctx.state = AJ_STATE_NOT_JAMMED
                 THEN [c1 EXCEPT !.state = AJ_STATE_SUSPECT,
                                 !.last_jam_change_ms = now_ms]
                 ELSE c1
    ELSE LET c1 == [ctx EXCEPT !.jam_streak = NonJammyStreak(ctx)]
         IN IF ctx.state = AJ_STATE_JAMMED
            THEN IF HoldElapsed(ctx, now_ms)
                 THEN [c1 EXCEPT !.state = AJ_STATE_SUSPECT,
                                 !.last_jam_change_ms = now_ms]
                 ELSE c1
            ELSE IF ctx.state = AJ_STATE_SUSPECT
                 THEN IF ctx.count = 0
                         \/ calc_score(ctx) < (ctx.cfg.jam_threshold_percent \div 2)
                      THEN [c1 EXCEPT !.state = AJ_STATE_NOT_JAMMED,
                                      !.last_jam_change_ms = now_ms]
                      ELSE c1
                 ELSE c1

(* update_report recommending without looking at the time of the last one *)
PacingElapsed_Unpaced(ctx, now_ms) == TRUE

(* a pacing test that asks for more than min_time_between_reco_ms *)
PacingElapsed_Strict(ctx, now_ms) ==
    Sub32(now_ms, ctx.last_reco_ms) > ctx.cfg.min_time_between_reco_ms

(* the pacing test of update_report: dt >= min_time_between_reco_ms *)
PacingElapsed(ctx, now_ms) ==
    Sub32(now_ms, ctx.last_reco_ms) >= ctx.cfg.min_time_between_reco_ms

(* a policy under which SUSPECT never recommends *)
HopPolicy_JammedOnly(ctx, score) == ctx.state = AJ_STATE_JAMMED

(* a policy under which SUSPECT recommends from the threshold itself *)
HopPolicy_NoMargin(ctx, score) ==
    \/ ctx.state = AJ_STATE_JAMMED
    \/ /\ ctx.state = AJ_STATE_SUSPECT
       /\ score >= ctx.cfg.jam_threshold_percent

(* JAMMED, or SUSPECT and significantly above threshold *)
HopPolicy(ctx, score) ==
    \/ ctx.state = AJ_STATE_JAMMED
    \/ /\ ctx.state = AJ_STATE_SUSPECT
       /\ score >= u32_clamp(ctx.cfg.jam_threshold_percent + 10, 0, 100)

update_report(ctx, now_ms) ==
    LET score == calc_score(ctx)
        total == ctx.count
        over == IF score > ctx.cfg.jam_threshold_percent
                THEN score - ctx.cfg.jam_threshold_percent ELSE 0
        conf == IF total > 0
                THEN u32_clamp(u32_clamp(total, 0, 100) \div 2 + over, 0, 100)
                ELSE 0
        hint == (score * 255) \div 100
        recommend == IF PacingElapsed(ctx, now_ms) /\ HopPolicy(ctx, score)
                     THEN 1 ELSE 0
    IN [ctx EXCEPT !.last_report =
            [state |-> ctx.state, score |-> score, recommend_hop |-> recommend,
             confidence |-> conf, when |-> now_ms,
             hop_aggressiveness_hint |-> hint]]

NoSuggestion ==
    [recommend |-> 0, confidence |-> 0, suggest_group_switch |-> 0,
     hop_aggressiveness_hint |-> 0, preferred_slot_index |-> 0,
     has_preferred_slot |-> 0]

(* result of an operation that may invoke the hop callback *)
NotFired(ctx) == [ctx |-> ctx, fired |-> FALSE, sugg |-> NoSuggestion]

maybe_fire_hop_callback(ctx, now_ms) ==
    IF ~ctx.hop_cb
    THEN NotFired(ctx)
    ELSE IF ctx.last_report.recommend_hop = 0
    THEN NotFired(ctx)
    ELSE [ctx |-> [ctx EXCEPT !.last_reco_ms = now_ms],
          fired |-> TRUE,
          sugg |-> [recommend |-> 1,
                    confidence |-> ctx.last_report.confidence,
                    suggest_group_switch |->
                        IF ctx.cfg.allow_group_switch_suggestions # 0
                           /\ (ctx.last_report.score >= GroupSwitchScore
                               \/ ctx.ext_jam_recent # 0)
                        THEN 1 ELSE 0,
                    hop_aggressiveness_hint |->
                        ctx.last_report.hop_aggressiveness_hint,
                    preferred_slot_index |-> 0,
                    has_preferred_slot |-> 0]]

(* min_time_between_reco_ms taken as configured *)
EffectiveMinReco_Raw(v) == v

(* the default guard on min_time_between_reco_ms *)
EffectiveMinReco(v) == IF v = 0 THEN DefaultMinRecoMs ELSE v

(* jam_threshold_percent capped at 100 only *)
ClampThreshold_UpperOnly(v) == IF v > 100 THEN 100 ELSE v

(* jam_threshold_percent brought into 1..100 *)
ClampThreshold(v) == IF v > 100 THEN 100 ELSE IF v < 1 THEN 1 ELSE v

aj_internal_apply_cfg(ctx, cfg) ==
    LET c1 == IF cfg.window_mode = AJ_WINDOW_BY_TIME /\ cfg.window_duration_ms = 0
              THEN [cfg EXCEPT !.window_duration_ms = DefaultWindowDurationMs]
              ELSE cfg
        c2 == [c1 EXCEPT !.min_time_between_reco_ms = EffectiveMinReco(@)]
        c3 == IF c2.consecutive_windows_to_jam = 0
              THEN [c2 EXCEPT !.consecutive_windows_to_jam = 1]
              ELSE c2
        c5 == [c3 EXCEPT !.jam_threshold_percent = ClampThreshold(@)]
    IN [ctx EXCEPT !.cfg = c5,
                   !.capacity = IF cfg.window_size_packets = 0
                                THEN 1 ELSE cfg.window_size_packets]

(* number of ring entries aj_context_size_bytes sizes the buffer for *)
RingEntriesFor(cfg) ==
    IF cfg.window_size_packets = 0 THEN 1 ELSE cfg.window_size_packets

BaselineReport(when) ==
    [state |-> AJ_STATE_NOT_JAMMED, score |-> 0, recommend_hop |-> 0,
     confidence |-> 0, when |-> when, hop_aggressiveness_hint |-> 0]

aj_init(cfg) ==
    aj_internal_apply_cfg(
        [cfg |-> cfg, capacity |-> 0, count |-> 0, head |-> 0, bad_count |-> 0,
         window_start_ms |-> 0, last_now_ms |-> 0,
         state |-> AJ_STATE_NOT_JAMMED, jam_streak |-> 0,
         last_jam_change_ms |-> 0,
         ext_jam_recent |-> 0, ext_jam_since_ms |-> 0,
         last_reco_ms |-> 0,
         last_report |-> BaselineReport(0),
         hop_cb |-> FALSE,
         entries |-> [i \in 0..(RingEntriesFor(cfg) - 1) |-> [good |-> 0, ts |-> 0]]],
        cfg)

(* aj_configure that reinitialises ring usage whatever the capacity *)
aj_configure_ResetRing(ctx, cfg) ==
    [aj_internal_apply_cfg(ctx, cfg) EXCEPT
        !.count = 0, !.head = 0, !.bad_count = 0,
        !.window_start_ms = ctx.last_now_ms, !.jam_streak = 0]

aj_configure(ctx, cfg) ==
    LET c1 == aj_internal_apply_cfg(ctx, cfg)
        c2 == IF c1.capacity # ctx.capacity
              THEN [c1 EXCEPT !.count = 0, !.head = 0, !.bad_count = 0]
              ELSE c1
    IN [c2 EXCEPT !.window_start_ms = ctx.last_now_ms, !.jam_streak = 0]

(* aj_reset that clears the ring and the report but keeps the jam state *)
aj_reset_KeepState(ctx) ==
    [ctx EXCEPT !.count = 0, !.head = 0, !.bad_count = 0,
                !.window_start_ms = ctx.last_now_ms,
                !.jam_streak = 0,
                !.ext_jam_recent = 0, !.ext_jam_since_ms = 0,
                !.last_reco_ms = 0,
                !.last_report = BaselineReport(ctx.last_now_ms)]

aj_reset(ctx) ==
    [ctx EXCEPT !.count = 0, !.head = 0, !.bad_count = 0,
                !.window_start_ms = ctx.last_now_ms,
                !.state = AJ_STATE_NOT_JAMMED,
                !.jam_streak = 0,
                !.last_jam_change_ms = ctx.last_now_ms,
                !.ext_jam_recent = 0, !.ext_jam_since_ms = 0,
                !.last_reco_ms = 0,
                !.last_report = BaselineReport(ctx.last_now_ms)]

(* a full ring overwritten without accounting for the evicted entry *)
EvictOrGrow_NoAccount(ctx) ==
    IF ctx.count = ctx.capacity THEN ctx ELSE [ctx EXCEPT !.count = @ + 1]

(* eviction of the head entry of a full ring, or growth of a ring with room *)
EvictOrGrow(ctx) ==
    IF ctx.count = ctx.capacity
    THEN [ctx EXCEPT !.bad_count =
              IF ctx.entries[ctx.head].good = 0 /\ @ > 0 THEN @ - 1 ELSE @]
    ELSE [ctx EXCEPT !.count = @ + 1]

(* aj_register_packet up to the advance of head *)
InsertPacket(ctx, good, time_ms) ==
    LET c1 == [ctx EXCEPT !.last_now_ms = time_ms]
        c2 == prune_old_by_time(c1, time_ms)
        c3 == EvictOrGrow(c2)
        g == IF good # 0 THEN 1 ELSE 0
        c4 == [c3 EXCEPT !.entries[c3.head] = [good |-> g, ts |-> time_ms],
                         !.bad_count = IF g = 0 THEN @ + 1 ELSE @]
    IN [c4 EXCEPT !.head = (@ + 1) % c4.capacity]

(* BY_COUNT: a boundary on every packet once the ring is full *)
PacketAtBoundary_EveryFull(ctx) ==
    /\ ctx.cfg.window_mode = AJ_WINDOW_BY_COUNT
    /\ ctx.count = ctx.capacity

(* a wrapped ring taken for a boundary in either window mode *)
PacketAtBoundary_AnyMode(ctx) ==
    /\ ctx.count = ctx.capacity
    /\ ctx.head = 0

(* BY_COUNT: the ring just wrapped *)
PacketAtBoundary(ctx) ==
    /\ ctx.cfg.window_mode = AJ_WINDOW_BY_COUNT
    /\ ctx.count = ctx.capacity
    /\ ctx.head = 0

aj_register_packet(ctx, good, time_ms) ==
    LET c5 == InsertPacket(ctx, good, time_ms)
        c6 == IF PacketAtBoundary(c5)
              THEN on_window_boundary(c5, time_ms)
              ELSE c5
    IN maybe_fire_hop_callback(update_report(c6, time_ms), time_ms)

aj_register_external_jam(ctx, time_ms) ==
    LET c1 == [ctx EXCEPT !.last_now_ms = time_ms,
                          !.ext_jam_recent = 1,
                          !.ext_jam_since_ms = time_ms]
        c2 == prune_old_by_time(c1, time_ms)
    IN maybe_fire_hop_callback(update_report(c2, time_ms), time_ms)

(* BY_TIME part of aj_tick: prune, then process a boundary once a window elapsed *)
(* the BY_TIME part of aj_tick leaving window_start_ms where it was *)
TickWindow_NoAdvance(ctx, now_ms) ==
    IF ctx.cfg.window_mode = AJ_WINDOW_BY_TIME
    THEN LET c1 == prune_old_by_time(ctx, now_ms)
         IN IF Sub32(now_ms, c1.window_start_ms) >= EffectiveDur(c1)
            THEN on_window_boundary(c1, now_ms)
            ELSE c1
    ELSE ctx

WindowElapsed(ctx, now_ms) ==
    Sub32(now_ms, ctx.window_start_ms) >= EffectiveDur(ctx)

TickWindow(ctx, now_ms) ==
    IF ctx.cfg.window_mode = AJ_WINDOW_BY_TIME
    THEN LET c1 == prune_old_by_time(ctx, now_ms)
             dur == EffectiveDur(c1)
             elapsed == Sub32(now_ms, c1.window_start_ms)
         IN IF WindowElapsed(c1, now_ms)
            THEN LET steps0 == elapsed \div dur
                     steps == IF steps0 = 0 THEN 1 ELSE steps0
                 IN on_window_boundary(
                      [c1 EXCEPT !.window_start_ms = (@ + ((steps * dur) % TsModulus)) % TsModulus],
                      now_ms)
            ELSE c1
    ELSE ctx

(* a tick that drops the external-jam flag whatever its age *)
TickAgeExtJam_Immediate(ctx, now_ms) == [ctx EXCEPT !.ext_jam_recent = 0]

(* external-jam ageing of aj_tick *)
TickAgeExtJam(ctx, now_ms) ==
    IF ctx.ext_jam_recent # 0
    THEN LET age == Sub32(now_ms, ctx.ext_jam_since_ms)
             limit == IF ctx.cfg.window_mode = AJ_WINDOW_BY_TIME
                      THEN (IF ctx.cfg.window_duration_ms # 0
                            THEN ctx.cfg.window_duration_ms
                            ELSE ExtJamLimitByCountMs)
                      ELSE ExtJamLimitByCountMs
         IN IF age >= limit THEN [ctx EXCEPT !.ext_jam_recent = 0] ELSE ctx
    ELSE ctx

(* aj_tick ending, like the register operations, with the callback *)
aj_tick_Firing(ctx, now_ms) ==
    maybe_fire_hop_callback(
        update_report(
            TickAgeExtJam(TickWindow([ctx EXCEPT !.last_now_ms = now_ms],
                                     now_ms), now_ms), now_ms), now_ms).ctx

aj_tick(ctx, now_ms) ==
    LET c1 == [ctx EXCEPT !.last_now_ms = now_ms]
        c2 == TickWindow(c1, now_ms)
        c3 == TickAgeExtJam(c2, now_ms)
    IN update_report(c3, now_ms)

(* the suggestion aj_evaluate_hop writes to out_sugg: the policy of         *)
(* update_report on the cached report, without the pacing test             *)
aj_evaluate_hop(ctx) ==
    LET rpt == ctx.last_report
        recommend ==
            IF ctx.state = AJ_STATE_JAMMED THEN 1
            ELSE IF /\ ctx.state = AJ_STATE_SUSPECT
                    /\ rpt.score >=
                          u32_clamp(ctx.cfg.jam_threshold_percent + 10, 0, 100)
            THEN 1 ELSE 0
    IN [recommend |-> recommend,
        confidence |-> rpt.confidence,
        suggest_group_switch |->
            IF ctx.cfg.allow_group_switch_suggestions # 0
               /\ (rpt.score >= GroupSwitchScore \/ ctx.ext_jam_recent # 0)
            THEN 1 ELSE 0,
        hop_aggressiveness_hint |-> rpt.hop_aggressiveness_hint,
        preferred_slot_index |-> 0,
        has_preferred_slot |-> 0]

aj_set_hop_callback(ctx, cb) == [ctx EXCEPT !.hop_cb = cb]

(***************************************************************************)
(* Mode switch (rc_channels.cpp)                                           *)
(***************************************************************************)
(* what a switch operation yields: the context after it, its return code   *)
(* and the notifications it delivered to the registered callback           *)
SwResult(ctx, ret, notes) == [ctx |-> ctx, ret |-> ret, notes |-> notes]

(* return value of the void operations *)
NoRet == 0 - 1

(* a switch that never calls the registered callback *)
notify_if_changed_Never(ctx) == << >>

notify_if_changed(ctx) ==
    IF ctx.cb
    THEN << [enabled |-> ctx.enabled, mode |-> ctx.mode,
             when_ms |-> ctx.last_change_ms] >>
    ELSE << >>

aj_switch_init ==
    [enabled |-> 0, mode |-> AJ_SWITCH_MODE_AUTO, controller_only |-> 0,
     last_change_ms |-> 0, cb |-> FALSE]

(* null: the call is made with a null context pointer *)
aj_switch_reset(ctx, null) ==
    IF null THEN SwResult(ctx, NoRet, << >>)
    ELSE SwResult([ctx EXCEPT !.enabled = 0, !.mode = AJ_SWITCH_MODE_AUTO,
                              !.controller_only = 0, !.last_change_ms = 0],
                  NoRet, << >>)

(* aj_switch_set_enabled comparing the raw argument with the stored 0/1 *)
aj_switch_set_enabled_Raw(ctx, null, enable, when_ms) ==
    IF null THEN SwResult(ctx, AJ_SW_RET_INVALID, << >>)
    ELSE IF ctx.enabled = enable
    THEN SwResult(ctx, AJ_SW_RET_NOCHANGE, << >>)
    ELSE LET c == [ctx EXCEPT !.enabled = IF enable # 0 THEN 1 ELSE 0,
                              !.last_change_ms = when_ms]
         IN SwResult(c, AJ_SW_RET_OK, notify_if_changed(c))

aj_switch_set_enabled(ctx, null, enable, when_ms) ==
    IF null THEN SwResult(ctx, AJ_SW_RET_INVALID, << >>)
    ELSE IF ctx.enabled = (IF enable # 0 THEN 1 ELSE 0)
    THEN SwResult(ctx, AJ_SW_RET_NOCHANGE, << >>)
    ELSE LET c == [ctx EXCEPT !.enabled = IF enable # 0 THEN 1 ELSE 0,
                              !.last_change_ms = when_ms]
         IN SwResult(c, AJ_SW_RET_OK, notify_if_changed(c))

(* aj_switch_set_mode_local testing "already active" before the lock *)
aj_switch_set_mode_local_NoChangeFirst(ctx, null, mode, when_ms) ==
    IF null THEN SwResult(ctx, AJ_SW_RET_INVALID, << >>)
    ELSE IF mode > AJ_SWITCH_MODE_HIGH
    THEN SwResult(ctx, AJ_SW_RET_INVALID, << >>)
    ELSE IF ctx.mode = mode
    THEN SwResult(ctx, AJ_SW_RET_NOCHANGE, << >>)
    ELSE IF ctx.controller_only # 0
    THEN SwResult(ctx, AJ_SW_RET_DENIED, << >>)
    ELSE LET c == [ctx EXCEPT !.mode = mode, !.last_change_ms = when_ms]
         IN SwResult(c, AJ_SW_RET_OK, notify_if_changed(c))

(* aj_switch_set_mode_local testing the lock before the mode's validity *)
aj_switch_set_mode_local_LockFirst(ctx, null, mode, when_ms) ==
    IF null THEN SwResult(ctx, AJ_SW_RET_INVALID, << >>)
    ELSE IF ctx.controller_only # 0
    THEN SwResult(ctx, AJ_SW_RET_DENIED, << >>)
    ELSE IF mode > AJ_SWITCH_MODE_HIGH
    THEN SwResult(ctx, AJ_SW_RET_INVALID, << >>)
    ELSE IF ctx.mode = mode
    THEN SwResult(ctx, AJ_SW_RET_NOCHANGE, << >>)
    ELSE LET c == [ctx EXCEPT !.mode = mode, !.last_change_ms = when_ms]
         IN SwResult(c, AJ_SW_RET_OK, notify_if_changed(c))

aj_switch_set_mode_local(ctx, null, mode, when_ms) ==
    IF null THEN SwResult(ctx, AJ_SW_RET_INVALID, << >>)
    ELSE IF mode > AJ_SWITCH_MODE_HIGH
    THEN SwResult(ctx, AJ_SW_RET_INVALID, << >>)
    ELSE IF ctx.controller_only # 0
    THEN SwResult(ctx, AJ_SW_RET_DENIED, << >>)
    ELSE IF ctx.mode = mode
    THEN SwResult(ctx, AJ_SW_RET_NOCHANGE, << >>)
    ELSE LET c == [ctx EXCEPT !.mode = mode, !.last_change_ms = when_ms]
         IN SwResult(c, AJ_SW_RET_OK, notify_if_changed(c))

(* aj_switch_set_mode_from_controller honouring the local lock *)
aj_switch_set_mode_from_controller_Locked(ctx, null, mode, when_ms) ==
    IF null THEN SwResult(ctx, AJ_SW_RET_INVALID, << >>)
    ELSE IF mode > AJ_SWITCH_MODE_HIGH
    THEN SwResult(ctx, AJ_SW_RET_INVALID, << >>)
    ELSE IF ctx.controller_only # 0
    THEN SwResult(ctx, AJ_SW_RET_DENIED, << >>)
    ELSE IF ctx.mode = mode
    THEN SwResult(ctx, AJ_SW_RET_NOCHANGE, << >>)
    ELSE LET c == [ctx EXCEPT !.mode = mode, !.last_change_ms = when_ms]
         IN SwResult(c, AJ_SW_RET_OK, notify_if_changed(c))

aj_switch_set_mode_from_controller(ctx, null, mode, when_ms) ==
    IF null THEN SwResult(ctx, AJ_SW_RET_INVALID, << >>)
    ELSE IF mode > AJ_SWITCH_MODE_HIGH
    THEN SwResult(ctx, AJ_SW_RET_INVALID, << >>)
    ELSE IF ctx.mode = mode
    THEN SwResult(ctx, AJ_SW_RET_NOCHANGE, << >>)
    ELSE LET c == [ctx EXCEPT !.mode = mode, !.last_change_ms = when_ms]
         IN SwResult(c, AJ_SW_RET_OK, notify_if_changed(c))

aj_switch_set_controller_only(ctx, null, controller_only) ==
    IF null THEN SwResult(ctx, NoRet, << >>)
    ELSE SwResult([ctx EXCEPT !.controller_only =
                       IF controller_only # 0 THEN 1 ELSE 0],
                  NoRet, << >>)

(* aj_switch_request_enable_from_controller applying the change silently *)
aj_switch_request_enable_from_controller_Silent(ctx, null, enable, when_ms) ==
    IF null THEN SwResult(ctx, AJ_SW_RET_INVALID, << >>)
    ELSE IF ctx.enabled = (IF enable # 0 THEN 1 ELSE 0)
    THEN SwResult(ctx, AJ_SW_RET_NOCHANGE, << >>)
    ELSE SwResult([ctx EXCEPT !.enabled = IF enable # 0 THEN 1 ELSE 0,
                              !.last_change_ms = when_ms],
                  AJ_SW_RET_OK, << >>)

aj_switch_request_enable_from_controller(ctx, null, enable, when_ms) ==
    IF null THEN SwResult(ctx, AJ_SW_RET_INVALID, << >>)
    ELSE IF ctx.enabled = (IF enable # 0 THEN 1 ELSE 0)
    THEN SwResult(ctx, AJ_SW_RET_NOCHANGE, << >>)
    ELSE LET c == [ctx EXCEPT !.enabled = IF enable # 0 THEN 1 ELSE 0,
                              !.last_change_ms = when_ms]
         IN SwResult(c, AJ_SW_RET_OK, notify_if_changed(c))

(* the RC reader: a stub that reads no channel and leaves the context as   *)
(* it is                                                                   *)
aj_switch_process_from_rc(ctx, rc, now_ms) == SwResult(ctx, NoRet, << >>)

aj_switch_register_notify_cb(ctx, null, cb) ==
    IF null THEN SwResult(ctx, NoRet, << >>)
    ELSE SwResult([ctx EXCEPT !.cb = cb], NoRet, << >>)

(* bit0 and bits1..2 of cmd, the mode code 3 taken as AUTO *)
aj_switch_cmd_unpack(cmd) ==
    LET m == (cmd \div 2) % 4
    IN [enable |-> cmd % 2,
        mode |-> IF m > AJ_SWITCH_MODE_HIGH THEN AJ_SWITCH_MODE_AUTO ELSE m]

(* enabled and mode applied together, one notification if either changed *)
aj_switch_apply_cmd_from_controller(ctx, null, cmd, when_ms) ==
    IF null THEN SwResult(ctx, AJ_SW_RET_INVALID, << >>)
    ELSE LET u == aj_switch_cmd_unpack(cmd)
             changed == ctx.enabled # u.enable \/ ctx.mode # u.mode
         IN IF ~changed THEN SwResult(ctx, AJ_SW_RET_NOCHANGE, << >>)
            ELSE LET c == [ctx EXCEPT !.enabled = u.enable, !.mode = u.mode,
                                      !.last_change_ms = when_ms]
                 IN SwResult(c, AJ_SW_RET_OK, notify_if_changed(c))

(* the switch operation `op` applied to ctx with argument arg *)
SwitchApply(op, ctx, null, arg, when_ms) ==
    CASE op = "set_enabled" -> aj_switch_set_enabled(ctx, null, arg, when_ms)
      [] op = "set_mode_local" -> aj_switch_set_mode_local(ctx, null, arg, when_ms)
      [] op = "set_mode_from_controller" ->
            aj_switch_set_mode_from_controller(ctx, null, arg, when_ms)
      [] op = "request_enable_from_controller" ->
            aj_switch_request_enable_from_controller(ctx, null, arg, when_ms)
      [] op = "set_controller_only" ->
            aj_switch_set_controller_only(ctx, null, arg)
      [] op = "register_notify_cb" ->
            aj_switch_register_notify_cb(ctx, null, arg # 0)
      [] op = "reset" -> aj_switch_reset(ctx, null)
      [] op = "apply_cmd_from_controller" ->
            aj_switch_apply_cmd_from_controller(ctx, null, arg, when_ms)

(***************************************************************************)
(* Switch inputs and actions                                               *)
(***************************************************************************)
EnableArgs == {0, 1, 2}
(* aj_switch_mode_t arguments: the three modes and the out-of-range 3 *)
ModeArgs == {AJ_SWITCH_MODE_AUTO, AJ_SWITCH_MODE_LOW, AJ_SWITCH_MODE_HIGH,
             AJ_SWITCH_MODE_HIGH + 1}
WhenArgs == 0..MaxWhen

SwObsInit ==
    [op |-> "init", null |-> FALSE, arg |-> 0, when_ms |-> 0,
     pre |-> aj_switch_init, ret |-> NoRet, notes |-> << >>]

SwInit ==
    /\ sw = aj_switch_init
    /\ sw_obs = SwObsInit

SwitchCall(op, null, arg, when_ms) ==
    LET r == SwitchApply(op, sw, null, arg, when_ms)
    IN /\ sw' = r.ctx
       /\ sw_obs' = [op |-> op, null |-> null, arg |-> arg, when_ms |-> when_ms,
                     pre |-> sw, ret |-> r.ret, notes |-> r.notes]
       /\ UNCHANGED <<ajVars, glVars, fcVars>>

(* command bytes: every enable/mode code, and bytes with bits 3..7 in use *)
ApplyCmdFromController ==
    \E null \in BOOLEAN, cmd \in (0..7) \cup {8 + 3, 248 + 4, 255},
       t \in WhenArgs :
        SwitchCall("apply_cmd_from_controller", null, cmd, t)

(***************************************************************************)
(* FHSS sequence, frequency map and the Glock barrier (FHSS.h)             *)
(***************************************************************************)
(* band descriptors of the domain table (fhss_config_t), scaled down *)
FHSSconfig ==
    [freq_start |-> 2400, freq_stop |-> 2480, freq_count |-> 3]
FHSSconfigDualBand ==
    [freq_start |-> 900, freq_stop |-> 930, freq_count |-> 2]

freq_spread ==
    ((FHSSconfig.freq_stop - FHSSconfig.freq_start) * FREQ_SPREAD_SCALE)
        \div (FHSSconfig.freq_count - 1)
freq_spread_DualBand ==
    ((FHSSconfigDualBand.freq_stop - FHSSconfigDualBand.freq_start)
        * FREQ_SPREAD_SCALE) \div (FHSSconfigDualBand.freq_count - 1)

sync_channel == FHSSconfig.freq_count \div 2
sync_channel_DualBand == FHSSconfigDualBand.freq_count \div 2

(* channel of sequence slot i: every N-th slot is the sync channel, the    *)
(* slots between take the other channels, rotated from block to block      *)
SequenceEntry(i, N, sync) ==
    IF N <= 1 \/ i % N = 0
    THEN sync
    ELSE LET k == ((i % N) - 1 + (i \div N)) % (N - 1)
         IN IF k < sync THEN k ELSE k + 1

FHSSsequence(i) == SequenceEntry(i, FHSSconfig.freq_count, sync_channel)
FHSSsequence_DualBand(i) ==
    SequenceEntry(i, FHSSconfigDualBand.freq_count, sync_channel_DualBand)

(* the flags are those of the variables FHSSuseDualBand and                *)
(* FHSSusePrimaryFreqBand                                                  *)
FHSSgetSequenceCount(dual, primary) ==
    IF dual
    THEN IF primaryBandCount < secondaryBandCount
         THEN primaryBandCount ELSE secondaryBandCount
    ELSE IF primary THEN primaryBandCount ELSE secondaryBandCount

PrimaryFreq(idx) ==
    FHSSconfig.freq_start
        + (freq_spread * FHSSsequence(idx)) \div FREQ_SPREAD_SCALE
SecondaryFreq(idx) ==
    FHSSconfigDualBand.freq_start
        + (freq_spread_DualBand * FHSSsequence_DualBand(idx))
            \div FREQ_SPREAD_SCALE

(* working frequency of a radio at sequence index idx: with dual band,     *)
(* radio 1 is on the primary band and radio 2 on the secondary one         *)
RadioFreq(radio_id, idx, dual, primary) ==
    IF dual
    THEN IF radio_id = FHSS_RADIO_1 THEN PrimaryFreq(idx) ELSE SecondaryFreq(idx)
    ELSE IF primary THEN PrimaryFreq(idx) ELSE SecondaryFreq(idx)

(* the barrier's shared words as one value *)
Glock(ptr, synced, armed, epoch) ==
    [ptr |-> ptr, synced |-> synced, armed |-> armed, epoch |-> epoch]

FHSSsetCurrIndex(g, value, dual, primary) ==
    LET p == value % FHSSgetSequenceCount(dual, primary)
    IN [g EXCEPT !.ptr = p, !.synced = p]

(* the legacy next hop: advances FHSSptr and returns the frequency of the  *)
(* band in use                                                             *)
FHSSgetNextFreq(g, dual, primary) ==
    LET p == (g.ptr + 1) % FHSSgetSequenceCount(dual, primary)
    IN [g |-> [g EXCEPT !.ptr = p],
        freq |-> IF primary THEN PrimaryFreq(p) ELSE SecondaryFreq(p)]

(* FHSSBeginHopCycle that arms without counting the cycle *)
FHSSBeginHopCycle_NoEpoch(g) == [g EXCEPT !.armed = 1]

FHSSBeginHopCycle(g) ==
    [g EXCEPT !.armed = 1, !.epoch = (@ + 1) % TsModulus]

(* the read-modify-write that advances but leaves the barrier armed *)
HopAdvanceIfArmed_NoDisarm(g, dual, primary) ==
    IF g.armed # 0
    THEN LET n == (g.synced + 1) % FHSSgetSequenceCount(dual, primary)
         IN [g |-> [g EXCEPT !.synced = n, !.ptr = n], advanced |-> TRUE]
    ELSE [g |-> g, advanced |-> FALSE]

(* the read-modify-write of (armed, cursor): the first caller of a cycle   *)
(* advances the cursor and disarms                                         *)
HopAdvanceIfArmed(g, dual, primary) ==
    IF g.armed # 0
    THEN LET n == (g.synced + 1) % FHSSgetSequenceCount(dual, primary)
         IN [g |-> [g EXCEPT !.synced = n, !.ptr = n, !.armed = 0],
             advanced |-> TRUE]
    ELSE [g |-> g, advanced |-> FALSE]

(* what a call hands back: the frequency, and the index it was read at *)
HopReturn(g, radio_id, dual, primary) ==
    [radio |-> radio_id, idx |-> g.synced,
     freq |-> RadioFreq(radio_id, g.synced, dual, primary)]

(* FHSSHopNextSynced returning the frequency it found on entry *)
FHSSHopNextSynced_PreAdvance(g, radio_id, dual, primary) ==
    LET a == HopAdvanceIfArmed(g, dual, primary)
    IN [g |-> a.g, advanced |-> a.advanced,
        ret |-> HopReturn(g, radio_id, dual, primary)]

FHSSHopNextSynced(g, radio_id, dual, primary) ==
    LET a == HopAdvanceIfArmed(g, dual, primary)
    IN [g |-> a.g, advanced |-> a.advanced,
        ret |-> HopReturn(a.g, radio_id, dual, primary)]

(* a critical section that masks nothing *)
IrqMasked_Never(m) == FALSE

(* interrupts are masked while the main loop is between its read of the    *)
(* armed flag and its write of (armed, cursor)                             *)
IrqMasked(m) == m.pc = "read"

(***************************************************************************)
(* Glock actions                                                           *)
(***************************************************************************)
GlockNow == Glock(FHSSptr, FHSSptrSynced, FHSSHopCycleArmed, FHSSSyncEpoch)
SeqCount == FHSSgetSequenceCount(FHSSuseDualBand, FHSSusePrimaryFreqBand)

SetGlock(g) ==
    /\ FHSSptr' = g.ptr
    /\ FHSSptrSynced' = g.synced
    /\ FHSSHopCycleArmed' = g.armed
    /\ FHSSSyncEpoch' = g.epoch

GlInit ==
    [K |-> 0, adv |-> 0, first |-> 0, base |-> 0, calls |-> 0, cyc_adv |-> 0,
     rets |-> {}, all_used |-> TRUE]

MainIdle == [pc |-> "idle", radio |-> 0, seen |-> 0, advanced |-> FALSE]

(* the barrier before any cycle: cursors as FHSSsetCurrIndex leaves them *)
GlockInit ==
    /\ FHSSuseDualBand \in BOOLEAN
    /\ FHSSusePrimaryFreqBand \in BOOLEAN
    /\ \E v \in 0..(primaryBandCount - 1), armed \in {0, 1} :
         LET g == FHSSsetCurrIndex(Glock(0, 0, armed, 0), v,
                                   FHSSuseDualBand, FHSSusePrimaryFreqBand)
         IN /\ FHSSptr = g.ptr
            /\ FHSSptrSynced = g.synced
            /\ FHSSHopCycleArmed = g.armed
            /\ FHSSSyncEpoch = g.epoch
    /\ gl = GlInit
    /\ main = MainIdle

GlockIdle ==
    /\ FHSSuseDualBand = FALSE
    /\ FHSSusePrimaryFreqBand = TRUE
    /\ FHSSptr = 0
    /\ FHSSptrSynced = 0
    /\ FHSSHopCycleArmed = 0
    /\ FHSSSyncEpoch = 0
    /\ gl = GlInit
    /\ main = MainIdle

(* the observer at the opening of a cycle whose cursor starts at synced *)
GlBegin(o, synced) ==
    [K |-> o.K + 1, adv |-> o.adv,
     first |-> IF o.K = 0 THEN synced ELSE o.first,
     base |-> synced, calls |-> 0, cyc_adv |-> 0, rets |-> {},
     all_used |-> o.all_used /\ (o.K = 0 \/ o.calls > 0)]

(* the observer after a read-modify-write (advanced or not) *)
GlRmw(o, advanced) ==
    IF advanced
    THEN [o EXCEPT !.adv = IF o.K > 0 THEN @ + 1 ELSE @, !.cyc_adv = @ + 1]
    ELSE o

(* the observer after a call returned r; by: "main" or "irq" *)
GlReturn(o, r, by) ==
    [o EXCEPT !.calls = @ + 1,
              !.rets = @ \cup {[radio |-> r.radio, idx |-> r.idx,
                                freq |-> r.freq, by |-> by]}]

BeginHopCycle ==
    /\ main.pc = "idle"
    /\ gl.K < MaxCycles
    /\ SetGlock(FHSSBeginHopCycle(GlockNow))
    /\ gl' = GlBegin(gl, FHSSptrSynced)
    /\ UNCHANGED <<ajVars, swVars, fcVars, bandVars, main>>

(* one whole FHSSHopNextSynced call, by the main loop or by an interrupt *)
HopNextSynced(by) ==
    \E radio \in {FHSS_RADIO_1, FHSS_RADIO_2} :
        LET r == FHSSHopNextSynced(GlockNow, radio, FHSSuseDualBand,
                                   FHSSusePrimaryFreqBand)
        IN /\ gl.calls < MaxCalls
           /\ SetGlock(r.g)
           /\ gl' = GlReturn(GlRmw(gl, r.advanced), r.ret, by)
           /\ UNCHANGED <<ajVars, swVars, fcVars, bandVars, main>>

(***************************************************************************)
(* Detector inputs                                                         *)
(***************************************************************************)
Cfg(wsp, dur, mode, thr, minbad, consec, hold, reco, grp) ==
    [window_size_packets |-> wsp, window_duration_ms |-> dur,
     window_mode |-> mode, jam_threshold_percent |-> thr,
     min_bad_packets |-> minbad, consecutive_windows_to_jam |-> consec,
     jam_state_hold_time_ms |-> hold, min_time_between_reco_ms |-> reco,
     allow_group_switch_suggestions |-> grp]

(* configurations handed to aj_init and aj_configure, out-of-range values *)
(* (0 sizes, 0 durations, thresholds of 0 and above 100) included         *)
CfgInputs ==
    { Cfg(2, 0, AJ_WINDOW_BY_COUNT, 50, 1, 1, 2, 2, 1),
      Cfg(1, 0, AJ_WINDOW_BY_COUNT, 200, 1, 2, 1, 0, 0),
      Cfg(2, 1, AJ_WINDOW_BY_TIME, 50, 1, 1, 1, 1, 1),
      Cfg(0, 0, AJ_WINDOW_BY_TIME, 0, 0, 0, 0, 3, 0) }

(* timestamps advance by one of these between two calls *)
TimeSteps == {0, 1, DefaultMinRecoMs}
(* the same, and a timestamp one millisecond in the past *)
AnyTimeSteps == TimeSteps \cup {-1}
TimesAfter(steps) == {(clock + d) % TsModulus : d \in steps}
GoodArgs == {0, 1, 2}

(***************************************************************************)
(* Observation of the hop callback                                         *)
(***************************************************************************)
HopInit ==
    [fired |-> FALSE, sugg |-> NoSuggestion, last_ms |-> NoFire,
     prev_ms |-> NoFire, steady |-> FALSE, disturbed |-> FALSE]

(* r: result of the operation, t: its timestamp *)
HopObserve(r, t) ==
    IF r.fired
    THEN [fired |-> TRUE, sugg |-> r.sugg, last_ms |-> t,
          prev_ms |-> hop.last_ms, steady |-> ~hop.disturbed,
          disturbed |-> FALSE]
    ELSE [hop EXCEPT !.fired = FALSE, !.sugg = NoSuggestion]

HopDisturb == [hop EXCEPT !.fired = FALSE, !.sugg = NoSuggestion,
                          !.disturbed = TRUE]

(***************************************************************************)
(* Observation of the window boundaries                                    *)
(***************************************************************************)
(* boundary: the last detector operation processed a window boundary;      *)
(* jammy: that boundary was jammy; run: consecutive jammy boundaries since *)
(* the last non-jammy boundary, aj_reset or aj_configure; pre_state: the   *)
(* state before the last detector operation; t0: the timestamp at which    *)
(* the latest stay in JAMMED began; nbound, fires: boundaries processed   *)
(* and callbacks fired since aj_init; prev_reco_ms: last_reco_ms before    *)
(* the last detector operation; peak: the highest reported score; npk: the *)
(* aj_register_packet calls since aj_init or the last aj_reset (NoFire     *)
(* once aj_configure intervened)                                           *)
WinInit ==
    [boundary |-> FALSE, jammy |-> FALSE, run |-> 0,
     pre_state |-> AJ_STATE_NOT_JAMMED, t0 |-> NoFire,
     nbound |-> 0, fires |-> 0, prev_reco_ms |-> 0, peak |-> 0,
     npk |-> 0]

NoBoundary == [boundary |-> FALSE, jammy |-> FALSE]

(* the boundary aj_register_packet(ctx, good, t) processes, if any *)
PacketBoundary(ctx, good, t) ==
    LET c == InsertPacket(ctx, good, t)
    IN IF PacketAtBoundary(c)
       THEN [boundary |-> TRUE, jammy |-> is_window_jammy(c)]
       ELSE NoBoundary

(* the boundary aj_tick(ctx, t) processes, if any *)
TickBoundary(ctx, t) ==
    IF ctx.cfg.window_mode = AJ_WINDOW_BY_TIME
    THEN LET c == prune_old_by_time(ctx, t)
         IN IF WindowElapsed(c, t)
            THEN [boundary |-> TRUE, jammy |-> is_window_jammy(c)]
            ELSE NoBoundary
    ELSE NoBoundary

(* post: the context after the operation, b: its boundary, t: its time *)
WinObserve(post, b, t, fired) ==
    [boundary |-> b.boundary, jammy |-> b.jammy,
     run |-> IF b.boundary THEN (IF b.jammy THEN win.run + 1 ELSE 0)
             ELSE win.run,
     pre_state |-> aj.state,
     t0 |-> IF post.state = AJ_STATE_JAMMED /\ aj.state # AJ_STATE_JAMMED
            THEN t ELSE win.t0,
     nbound |-> win.nbound + (IF b.boundary THEN 1 ELSE 0),
     fires |-> win.fires + (IF fired THEN 1 ELSE 0),
     prev_reco_ms |-> aj.last_reco_ms,
     peak |-> IF post.last_report.score > win.peak
              THEN post.last_report.score ELSE win.peak,
     npk |-> win.npk]

(* one more aj_register_packet call *)
CountPacket(w) == [w EXCEPT !.npk = IF @ = NoFire THEN @ ELSE @ + 1]

(* aj_configure: no boundary, the run starts again *)
WinDisturb(post) ==
    [win EXCEPT !.boundary = FALSE, !.jammy = FALSE, !.run = 0,
                !.pre_state = aj.state,
                !.prev_reco_ms = aj.last_reco_ms,
                !.npk = NoFire]

(* aj_reset: the same, and the ring starts empty at slot 0 *)
WinReset(post) == [WinDisturb(post) EXCEPT !.npk = 0]

(***************************************************************************)
(* The same run on a shifted time axis                                     *)
(***************************************************************************)
(* ctx: the context of the run whose timestamps are all Shifted;          *)
(* fired: its last operation invoked the hop callback                      *)
ShiftedRun(ctx, fired) == [ctx |-> ctx, fired |-> fired]

(* no shifted run is followed *)
ShiftIdle == ShiftedRun(aj_init(Cfg(2, 0, AJ_WINDOW_BY_COUNT, 50, 1, 1, 2, 2, 1)),
                        FALSE)

(***************************************************************************)
(* Detector actions                                                        *)
(***************************************************************************)
(* aj_init, alone or followed by the registration of a hop callback as in  *)
(* anti_jamming_init_with_buffer                                           *)
AjInit ==
    /\ \E cfg \in CfgInputs, cb \in BOOLEAN :
          aj = aj_set_hop_callback(aj_init(cfg), cb)
    /\ clock = 0
    /\ hop = HopInit
    /\ win = WinInit
    /\ aj_op = "init"
    /\ nops = 0
    /\ aj_shift = ShiftIdle

Step(op, max) ==
    /\ nops < max
    /\ nops' = nops + 1
    /\ aj_op' = op
    /\ UNCHANGED <<aj_shift, swVars, glVars, fcVars>>

RegisterPacket(steps, max) ==
    \E t \in TimesAfter(steps), good \in GoodArgs :
        LET r == aj_register_packet(aj, good, t)
        IN /\ Step("register_packet", max)
           /\ aj' = r.ctx
           /\ clock' = t
           /\ hop' = HopObserve(r, t)
           /\ win' = CountPacket(WinObserve(r.ctx, PacketBoundary(aj, good, t),
                                            t, r.fired))

RegisterExternalJam(steps, max) ==
    \E t \in TimesAfter(steps) :
        LET r == aj_register_external_jam(aj, t)
        IN /\ Step("register_external_jam", max)
           /\ aj' = r.ctx
           /\ clock' = t
           /\ hop' = HopObserve(r, t)
           /\ win' = WinObserve(r.ctx, NoBoundary, t, r.fired)

Tick(steps, max) ==
    \E t \in TimesAfter(steps) :
        /\ Step("tick", max)
        /\ aj' = aj_tick(aj, t)
        /\ clock' = t
        /\ hop' = HopObserve(NotFired(aj), t)
        /\ win' = WinObserve(aj_tick(aj, t), TickBoundary(aj, t), t, FALSE)

Reset(max) ==
    /\ Step("reset", max)
    /\ aj' = aj_reset(aj)
    /\ hop' = HopDisturb
    /\ win' = WinReset(aj_reset(aj))
    /\ UNCHANGED clock

(* the caller sized the buffer at aj_init: a new capacity must fit in it *)
Configure(max) ==
    \E cfg \in CfgInputs :
        /\ RingEntriesFor(cfg) <= Cardinality(DOMAIN aj.entries)
        /\ Step("configure", max)
        /\ aj' = aj_configure(aj, cfg)
        /\ hop' = HopDisturb
        /\ win' = WinDisturb(aj_configure(aj, cfg))
        /\ UNCHANGED clock

SetHopCallback(max) ==
    \E cb \in BOOLEAN :
        /\ Step("set_hop_callback", max)
        /\ aj' = aj_set_hop_callback(aj, cb)
        /\ hop' = [hop EXCEPT !.fired = FALSE, !.sugg = NoSuggestion]
        /\ win' = [win EXCEPT !.boundary = FALSE, !.jammy = FALSE,
                              !.pre_state = aj.state,
                              !.prev_reco_ms = aj.last_reco_ms]
        /\ UNCHANGED clock

(* the RC channels as the reader would decode them: enable from CH4, mode  *)
(* from CH5                                                                *)
RcChannels(enable, mode) == [enable |-> enable, mode |-> mode]

(* no RC input was handed to the last entry point *)
NoRc == RcChannels(0, AJ_SWITCH_MODE_AUTO)

(* the integration layer before any switch notification *)
FacadeIdle ==
    /\ g_anti_jam_enabled = 0
    /\ g_switch_prev_enabled = 0
    /\ fc = [op |-> "init", delivered |-> FALSE, sugg |-> NoSuggestion,
             hopped |-> FALSE, calls |-> << >>, notes |-> << >>, rc |-> NoRc]
    /\ ChannelData = [i \in 0..15 |-> 0]
    /\ rc_read = [ch |-> 0, us |-> rc_read_us(ChannelData, 0)]
    /\ reset_pending = {}

(* the detector after aj_init with the first configuration, left alone *)
AjIdle ==
    /\ aj = aj_init(Cfg(2, 0, AJ_WINDOW_BY_COUNT, 50, 1, 1, 2, 2, 1))
    /\ clock = 0
    /\ hop = HopInit
    /\ win = WinInit
    /\ aj_op = "init"
    /\ nops = 0
    /\ aj_shift = ShiftIdle

Init == AjInit /\ SwInit /\ GlockIdle /\ FacadeIdle

(* every detector operation, with arbitrary timestamps *)
Next ==
    \/ RegisterPacket(AnyTimeSteps, MaxOps)
    \/ RegisterExternalJam(AnyTimeSteps, MaxOps)
    \/ Tick(AnyTimeSteps, MaxOps)
    \/ Reset(MaxOps)
    \/ Configure(MaxOps)
    \/ SetHopCallback(MaxOps)

Spec == Init /\ [][Next]_vars

(* a fixed configuration and non-decreasing timestamps *)
NextFixed ==
    \/ RegisterPacket(TimeSteps, MaxFixedOps)
    \/ RegisterExternalJam(TimeSteps, MaxFixedOps)
    \/ Tick(TimeSteps, MaxFixedOps)
    \/ SetHopCallback(MaxFixedOps)

SpecFixed == Init /\ [][NextFixed]_vars

(* every detector operation, with the non-decreasing timestamps of a       *)
(* free-running millis()                                                   *)
NextMono ==
    \/ RegisterPacket(TimeSteps, MaxFixedOps)
    \/ RegisterExternalJam(TimeSteps, MaxFixedOps)
    \/ Tick(TimeSteps, MaxFixedOps)
    \/ Reset(MaxFixedOps)
    \/ Configure(MaxFixedOps)

(* the detector as anti_jamming_init_with_buffer leaves it *)
InitMono ==
    /\ \E cfg \in CfgInputs :
          aj = aj_set_hop_callback(aj_init(cfg), TRUE)
    /\ clock = 0
    /\ hop = HopInit
    /\ win = WinInit
    /\ aj_op = "init"
    /\ nops = 0
    /\ aj_shift = ShiftIdle
    /\ SwInit
    /\ GlockIdle
    /\ FacadeIdle

SpecMono == InitMono /\ [][NextMono]_vars

(* number of entries the buffer handed to aj_init has room for *)
BufferEntries == Cardinality(DOMAIN aj.entries)

(* aj_configure with any configuration, larger window sizes included *)
ConfigureAny(max) ==
    \E cfg \in CfgInputs :
        /\ Step("configure", max)
        /\ aj' = aj_configure(aj, cfg)
        /\ hop' = HopDisturb
        /\ win' = WinDisturb(aj_configure(aj, cfg))
        /\ UNCHANGED clock

(* aj_register_packet while entries[head] lies in the buffer *)
RegisterPacketInBuffer(steps, max) ==
    /\ aj.head < BufferEntries
    /\ RegisterPacket(steps, max)

(* aj_register_packet writing entries[head] past the end of the buffer:    *)
(* the behaviour of the program is undefined from here on and is followed  *)
(* no further                                                              *)
RegisterPacketOutOfBuffer(max) ==
    /\ nops < max
    /\ aj.head >= BufferEntries
    /\ aj_op' = "out_of_bounds"
    /\ nops' = max
    /\ UNCHANGED <<aj, clock, hop, win, aj_shift, swVars, glVars, fcVars>>

(* the detector reconfigured without regard to the size of its buffer *)
NextReconf ==
    \/ RegisterPacketInBuffer(TimeSteps, MaxFixedOps)
    \/ RegisterPacketOutOfBuffer(MaxFixedOps)
    \/ RegisterExternalJam(TimeSteps, MaxFixedOps)
    \/ Tick(TimeSteps, MaxFixedOps)
    \/ ConfigureAny(MaxFixedOps)

SpecReconf == InitMono /\ [][NextReconf]_vars

(* a timestamp of the shifted run: half the range earlier *)
Shifted(t) == (t - TsModulus \div 2) % TsModulus

(* the context with every timestamp it holds shifted *)
ShiftCtx(ctx) ==
    [ctx EXCEPT !.window_start_ms = Shifted(@),
                !.last_now_ms = Shifted(@),
                !.last_jam_change_ms = Shifted(@),
                !.last_reco_ms = Shifted(@),
                !.ext_jam_since_ms = Shifted(@),
                !.last_report.when = Shifted(@),
                !.entries = [i \in DOMAIN @ |-> [@[i] EXCEPT !.ts = Shifted(@)]]]

WrapSteps == {0, 1, 3}

(* a context whose clock, two milliseconds before millis() wraps, is about *)
(* to wrap, and the same context on the shifted time axis; a BY_TIME and a *)
(* BY_COUNT configuration with window, hold and pacing intervals of 2 ms   *)
InitWrap ==
    /\ \E cfg \in { Cfg(2, 2, AJ_WINDOW_BY_TIME, 50, 1, 1, 2, 2, 1),
                     Cfg(2, 0, AJ_WINDOW_BY_COUNT, 50, 1, 1, 2, 2, 1) } :
          LET c == aj_tick(aj_set_hop_callback(aj_init(cfg), TRUE),
                           TsModulus - 2)
          IN /\ aj = c
             /\ aj_shift = ShiftedRun(ShiftCtx(c), FALSE)
    /\ clock = TsModulus - 2
    /\ hop = HopInit
    /\ win = WinInit
    /\ aj_op = "init"
    /\ nops = 0
    /\ SwInit
    /\ GlockIdle
    /\ FacadeIdle

(* one detector operation of both runs *)
WrapStep(op) ==
    /\ nops < MaxWrapOps
    /\ nops' = nops + 1
    /\ aj_op' = op
    /\ UNCHANGED <<swVars, glVars, fcVars>>

NextWrap ==
    \/ \E t \in TimesAfter(WrapSteps), good \in GoodArgs :
           LET r == aj_register_packet(aj, good, t)
               r0 == aj_register_packet(aj_shift.ctx, good, Shifted(t))
           IN /\ WrapStep("register_packet")
              /\ aj' = r.ctx
              /\ aj_shift' = ShiftedRun(r0.ctx, r0.fired)
              /\ clock' = t
              /\ hop' = HopObserve(r, t)
              /\ win' = CountPacket(WinObserve(r.ctx, PacketBoundary(aj, good, t),
                                               t, r.fired))
    \/ \E t \in TimesAfter(WrapSteps) :
           LET r == aj_register_external_jam(aj, t)
               r0 == aj_register_external_jam(aj_shift.ctx, Shifted(t))
           IN /\ WrapStep("register_external_jam")
              /\ aj' = r.ctx
              /\ aj_shift' = ShiftedRun(r0.ctx, r0.fired)
              /\ clock' = t
              /\ hop' = HopObserve(r, t)
              /\ win' = WinObserve(r.ctx, NoBoundary, t, r.fired)
    \/ \E t \in TimesAfter(WrapSteps) :
           /\ WrapStep("tick")
           /\ aj' = aj_tick(aj, t)
           /\ aj_shift' = ShiftedRun(aj_tick(aj_shift.ctx, Shifted(t)), FALSE)
           /\ clock' = t
           /\ hop' = HopObserve(NotFired(aj), t)
           /\ win' = WinObserve(aj_tick(aj, t), TickBoundary(aj, t), t, FALSE)

SpecWrap == InitWrap /\ [][NextWrap]_vars

(* the configurations of the end-to-end scenarios, scaled down: windows of *)
(* 1 and 2 packets, debounce of 1 and 2 windows, pacing configured as 0,   *)
(* and one BY_TIME configuration                                           *)
(* on a freshly initialised context with the callback registered           *)
InitScenario ==
    /\ \E cfg \in { Cfg(2, 0, AJ_WINDOW_BY_COUNT, 50, 1, 1, 0, 0, 0),
                     Cfg(1, 0, AJ_WINDOW_BY_COUNT, 95, 1, 2, 0, 0, 0),
                     Cfg(2, 0, AJ_WINDOW_BY_COUNT, 50, 1, 2, 0, 0, 0),
                     Cfg(2, 1, AJ_WINDOW_BY_TIME, 100, 1, 1, 1, 1, 1) } :
          aj = aj_set_hop_callback(aj_init(cfg), TRUE)
    /\ clock = 0
    /\ hop = HopInit
    /\ win = WinInit
    /\ aj_op = "init"
    /\ nops = 0
    /\ aj_shift = ShiftIdle
    /\ SwInit
    /\ GlockIdle
    /\ FacadeIdle

NextScenario ==
    \/ RegisterPacket(TimeSteps, MaxScenarioOps)
    \/ RegisterExternalJam(TimeSteps, MaxScenarioOps)
    \/ Tick(TimeSteps, MaxScenarioOps)

SpecScenario == InitScenario /\ [][NextScenario]_vars

(* the mode switch alone *)
InitSwitch == AjIdle /\ SwInit /\ GlockIdle /\ FacadeIdle

(* one disjunct per entry point of the mode switch *)
NextSwitch ==
    \/ \E null \in BOOLEAN, enable \in EnableArgs, t \in WhenArgs :
          SwitchCall("set_enabled", null, enable, t)
    \/ \E null \in BOOLEAN, mode \in ModeArgs, t \in WhenArgs :
          SwitchCall("set_mode_local", null, mode, t)
    \/ \E null \in BOOLEAN, mode \in ModeArgs, t \in WhenArgs :
          SwitchCall("set_mode_from_controller", null, mode, t)
    \/ \E null \in BOOLEAN, enable \in EnableArgs, t \in WhenArgs :
          SwitchCall("request_enable_from_controller", null, enable, t)
    \/ \E null \in BOOLEAN, co \in EnableArgs :
          SwitchCall("set_controller_only", null, co, 0)
    \/ \E null \in BOOLEAN, cb \in {0, 1} :
          SwitchCall("register_notify_cb", null, cb, 0)
    \/ \E null \in BOOLEAN : SwitchCall("reset", null, 0, 0)

SpecSwitch == InitSwitch /\ [][NextSwitch]_vars

(* the mode switch with the packed controller command *)
NextSwitchCmd ==
    \/ NextSwitch
    \/ ApplyCmdFromController

SpecSwitchCmd == InitSwitch /\ [][NextSwitchCmd]_vars

(* the Glock barrier driven from one thread *)
InitGlock == AjIdle /\ SwInit /\ GlockInit /\ FacadeIdle

NextGlock ==
    \/ BeginHopCycle
    \/ HopNextSynced("main")
    (* the hop of the integration layer: begin a cycle, then radio 1, radio 2 *)
    \/ LET g0 == FHSSBeginHopCycle(GlockNow)
           r1 == FHSSHopNextSynced(g0, FHSS_RADIO_1, FHSSuseDualBand,
                                   FHSSusePrimaryFreqBand)
           r2 == FHSSHopNextSynced(r1.g, FHSS_RADIO_2, FHSSuseDualBand,
                                   FHSSusePrimaryFreqBand)
       IN /\ main.pc = "idle"
          /\ gl.K < MaxCycles
          /\ SetGlock(r2.g)
          /\ gl' = GlReturn(GlRmw(GlReturn(GlRmw(GlBegin(gl, FHSSptrSynced),
                                                   r1.advanced), r1.ret, "main"),
                                  r2.advanced), r2.ret, "main")
          /\ UNCHANGED <<ajVars, swVars, fcVars, bandVars, main>>

SpecGlock == InitGlock /\ [][NextGlock]_vars

(* the main loop's call preempted by an interrupt that calls for a radio *)
NextGlockIrq ==
    \/ BeginHopCycle
    (* the main loop enters FHSSHopNextSynced and its critical section, and   *)
    (* reads the armed flag                                                    *)
    \/ \E radio \in {FHSS_RADIO_1, FHSS_RADIO_2} :
           /\ main.pc = "idle"
           /\ gl.calls < MaxCalls
           /\ main' = [pc |-> "read", radio |-> radio,
                       seen |-> FHSSHopCycleArmed, advanced |-> FALSE]
           /\ UNCHANGED <<ajVars, swVars, fcVars, bandVars, FHSSptr, FHSSptrSynced,
                          FHSSHopCycleArmed, FHSSSyncEpoch, gl>>
    (* the write of (armed, cursor) decided on the flag read at entry; it      *)
    (* leaves the critical section                                             *)
    \/ /\ main.pc = "read"
       /\ LET a == HopAdvanceIfArmed([GlockNow EXCEPT !.armed = main.seen],
                                     FHSSuseDualBand, FHSSusePrimaryFreqBand)
          IN /\ SetGlock(IF a.advanced THEN a.g ELSE GlockNow)
             /\ gl' = GlRmw(gl, a.advanced)
             /\ main' = [main EXCEPT !.pc = "computed", !.advanced = a.advanced]
       /\ UNCHANGED <<ajVars, swVars, fcVars, bandVars>>
    (* the main loop's call computes its frequency and returns *)
    \/ /\ main.pc = "computed"
       /\ gl' = GlReturn(gl, HopReturn(GlockNow, main.radio, FHSSuseDualBand,
                                       FHSSusePrimaryFreqBand), "main")
       /\ main' = MainIdle
       /\ UNCHANGED <<ajVars, swVars, fcVars, bandVars, FHSSptr, FHSSptrSynced,
                      FHSSHopCycleArmed, FHSSSyncEpoch>>
    (* a radio interrupt preempts the main loop and makes its whole call *)
    \/ /\ ~IrqMasked(main)
       /\ HopNextSynced("irq")

SpecGlockIrq == InitGlock /\ [][NextGlockIrq]_vars

(* valid configurations, one of them with jam_threshold_percent = 1 *)
InitHeal ==
    /\ \E cfg \in { Cfg(1, 0, AJ_WINDOW_BY_COUNT, 1, 1, 1, 1, 1, 0),
                     Cfg(2, 0, AJ_WINDOW_BY_COUNT, 50, 1, 1, 2, 2, 1),
                     Cfg(2, 1, AJ_WINDOW_BY_TIME, 50, 1, 1, 1, 1, 1) } :
          aj = aj_set_hop_callback(aj_init(cfg), TRUE)
    /\ clock = 0
    /\ hop = HopInit
    /\ win = WinInit
    /\ aj_op = "init"
    /\ nops = 0
    /\ aj_shift = ShiftIdle
    /\ SwInit
    /\ GlockIdle
    /\ FacadeIdle

(* a call on the clean link, a quarter of the timestamp range after the    *)
(* previous one; no operation of the first phase follows                   *)
HealCall(op) ==
    /\ nops' = MaxHealOps
    /\ aj_op' = op
    /\ clock' = (clock + TsModulus \div 4) % TsModulus

(* the clean link: a good packet (op "register_packet") or an aj_tick; the *)
(* callback and the windows are no longer observed                         *)
Heal(op) ==
    /\ HealCall(op)
    /\ aj' = IF op = "tick" THEN aj_tick(aj, clock')
             ELSE aj_register_packet(aj, 1, clock').ctx
    /\ hop' = HopInit
    /\ win' = WinInit
    /\ UNCHANGED <<aj_shift, swVars, glVars, fcVars>>

NextHeal ==
    \/ RegisterPacket(TimeSteps, MaxHealOps)
    \/ RegisterExternalJam(TimeSteps, MaxHealOps)
    \/ Tick(TimeSteps, MaxHealOps)
    \/ Heal("register_packet")
    \/ Heal("tick")

(* packets keep arriving and aj_tick keeps being called: both calls of the *)
(* clean link, which can always be made, are made again and again          *)
SpecHeal ==
    /\ InitHeal
    /\ [][NextHeal]_vars
    /\ WF_clock(HealCall("register_packet"))
    /\ WF_clock(HealCall("tick"))

(* the receiver writes a frame of 16-bit channel values, then rc_read_us   *)
(* is called for channel numbers inside and outside 1..16                  *)
NextRc ==
    \/ /\ aj_op = "init"
       /\ aj_op' = "channel_data"
       /\ \E raw \in 0..65535 :
             ChannelData' = [i \in 0..15 |-> (raw + i) % 65536]
       /\ UNCHANGED <<aj, clock, hop, nops, win, aj_shift, swVars, glVars,
                      g_anti_jam_enabled, g_switch_prev_enabled, fc, rc_read,
                      reset_pending>>
    \/ /\ aj_op # "init"
       /\ aj_op' = "rc_read_us"
       /\ \E ch \in {0, 1, 16, 17, 255} :
             rc_read' = [ch |-> ch, us |-> rc_read_us(ChannelData, ch)]
       /\ UNCHANGED <<aj, clock, hop, nops, win, aj_shift, swVars, glVars,
                      g_anti_jam_enabled, g_switch_prev_enabled, fc,
                      ChannelData, reset_pending>>

SpecRc == InitSwitch /\ [][NextRc]_vars

(* the cursor under every call that moves it: the synced flow, the RX's    *)
(* FHSSsetCurrIndex on SYNC and the legacy FHSSgetNextFreq                 *)
NextCursor ==
    \/ /\ FHSSSyncEpoch < MaxCycles
       /\ SetGlock(FHSSBeginHopCycle(GlockNow))
       /\ UNCHANGED <<ajVars, swVars, fcVars, bandVars, gl, main>>
    \/ \E radio \in {FHSS_RADIO_1, FHSS_RADIO_2} :
          /\ SetGlock(FHSSHopNextSynced(GlockNow, radio, FHSSuseDualBand,
                                        FHSSusePrimaryFreqBand).g)
          /\ UNCHANGED <<ajVars, swVars, fcVars, bandVars, gl, main>>
    \/ \E value \in {0, 1, 2, 3, 4, 255} :
          /\ SetGlock(FHSSsetCurrIndex(GlockNow, value, FHSSuseDualBand,
                                       FHSSusePrimaryFreqBand))
          /\ UNCHANGED <<ajVars, swVars, fcVars, bandVars, gl, main>>
    \/ /\ SetGlock(FHSSgetNextFreq(GlockNow, FHSSuseDualBand,
                                    FHSSusePrimaryFreqBand).g)
       /\ UNCHANGED <<ajVars, swVars, fcVars, bandVars, gl, main>>

SpecCursor == InitGlock /\ [][NextCursor]_vars

(***************************************************************************)
(* Integration layer (anti_jamming.cpp): switch control and FHSS glue      *)
(***************************************************************************)
(* FHSSBeginHopCycle, then FHSSHopNextSynced for radio 1 and for radio 2 *)
SyncedHopCalls(g, dual, primary) ==
    LET g0 == FHSSBeginHopCycle(g)
        r1 == FHSSHopNextSynced(g0, FHSS_RADIO_1, dual, primary)
        r2 == FHSSHopNextSynced(r1.g, FHSS_RADIO_2, dual, primary)
    IN [g |-> r2.g, hopped |-> TRUE, r1 |-> r1, r2 |-> r2,
        calls |-> << [radio |-> r1.ret.radio, advanced |-> r1.advanced,
                      freq |-> r1.ret.freq],
                     [radio |-> r2.ret.radio, advanced |-> r2.advanced,
                      freq |-> r2.ret.freq] >>]

NoHop(g) == [g |-> g, hopped |-> FALSE, calls |-> << >>]

(* the hop callback acting whatever the enable flag says *)
anti_jam_internal_hop_cb_AlwaysOn(g, s_null, s, enabled, dual, primary) ==
    IF s_null THEN NoHop(g)
    ELSE IF s.recommend = 0 THEN NoHop(g)
    ELSE SyncedHopCalls(g, dual, primary)

(* s_null: the suggestion pointer is null; enabled: g_anti_jam_enabled *)
anti_jam_internal_hop_cb(g, s_null, s, enabled, dual, primary) ==
    IF s_null THEN NoHop(g)
    ELSE IF enabled = 0 THEN NoHop(g)
    ELSE IF s.recommend = 0 THEN NoHop(g)
    ELSE SyncedHopCalls(g, dual, primary)

(* the forced hop acting whatever the enable flag says *)
anti_jamming_force_synced_hop_AlwaysOn(g, enabled, dual, primary) ==
    SyncedHopCalls(g, dual, primary)

anti_jamming_force_synced_hop(g, enabled, dual, primary) ==
    IF enabled = 0 THEN NoHop(g) ELSE SyncedHopCalls(g, dual, primary)

(* g_aj_ctx is set: the OFF->ON hook resets the detector *)
anti_jamming_start_impl(ctx) == aj_reset(ctx)

(* the integration layer's flags and the detector context as one value *)
Facade(enabled, prev, ctx) == [enabled |-> enabled, prev |-> prev, aj |-> ctx]

(* the notify callback resetting the detector on every notification *)
aj_switch_notify_cb_AlwaysReset(f, enabled) ==
    LET e == IF enabled # 0 THEN 1 ELSE 0
    IN Facade(e, e, anti_jamming_start_impl(f.aj))

aj_switch_notify_cb(f, enabled) ==
    LET e == IF enabled # 0 THEN 1 ELSE 0
    IN Facade(e, e,
              IF e # 0 /\ f.prev = 0 THEN anti_jamming_start_impl(f.aj)
              ELSE f.aj)

(* the notifications of one switch operation, delivered in order *)
RECURSIVE DeliverNotes(_, _)
DeliverNotes(f, notes) ==
    IF notes = << >> THEN f
    ELSE DeliverNotes(aj_switch_notify_cb(f, Head(notes).enabled), Tail(notes))

(* anti_jamming_init_with_buffer: aj_init, then the internal hop callback *)
anti_jamming_init_with_buffer(cfg) == aj_set_hop_callback(aj_init(cfg), TRUE)

(* anti_jamming_switch_init: aj_switch_init, then the notify callback *)
anti_jamming_switch_init ==
    aj_switch_register_notify_cb(aj_switch_init, FALSE, TRUE).ctx

FacadeNow == Facade(g_anti_jam_enabled, g_switch_prev_enabled, aj)

(* the observer after the synced hop h (or none) of an entry point *)
GlAfter(h) ==
    IF h.hopped
    THEN GlReturn(GlRmw(GlReturn(GlRmw(GlBegin(gl, FHSSptrSynced),
                                        h.r1.advanced), h.r1.ret, "main"),
                        h.r2.advanced), h.r2.ret, "main")
    ELSE gl

FacadeInit ==
    /\ \E cfg \in CfgInputs : aj = anti_jamming_init_with_buffer(cfg)
    /\ clock = 0
    /\ hop = HopInit
    /\ win = WinInit
    /\ aj_op = "init"
    /\ nops = 0
    /\ aj_shift = ShiftIdle
    /\ sw = anti_jamming_switch_init
    /\ sw_obs = SwObsInit
    /\ FHSSuseDualBand \in BOOLEAN
    /\ FHSSusePrimaryFreqBand = TRUE
    /\ FHSSptr = 0
    /\ FHSSptrSynced = 0
    /\ FHSSHopCycleArmed = 0
    /\ FHSSSyncEpoch = 0
    /\ gl = GlInit
    /\ main = MainIdle
    /\ FacadeIdle

FacadeTimeSteps == {1, DefaultMinRecoMs}

(* an entry point that hands r (context, fired, suggestion) of a detector  *)
(* operation at time t to the hop callback                                 *)
FacadeDetectorCall(op, r, b, t) ==
    LET h == IF r.fired
             THEN anti_jam_internal_hop_cb(GlockNow, FALSE, r.sugg,
                      g_anti_jam_enabled, FHSSuseDualBand,
                      FHSSusePrimaryFreqBand)
             ELSE NoHop(GlockNow)
    IN /\ nops < MaxFacadeOps
       /\ nops' = nops + 1
       /\ aj_op' = op
       /\ aj' = r.ctx
       /\ clock' = t
       /\ hop' = HopObserve(r, t)
       /\ win' = IF op = "register_packet"
                 THEN CountPacket(WinObserve(r.ctx, b, t, r.fired))
                 ELSE WinObserve(r.ctx, b, t, r.fired)
       /\ SetGlock(h.g)
       /\ gl' = GlAfter(h)
       /\ fc' = [op |-> op, delivered |-> r.fired, sugg |-> r.sugg,
                 hopped |-> h.hopped, calls |-> h.calls, notes |-> << >>,
                 rc |-> NoRc]
       /\ UNCHANGED <<aj_shift, swVars, bandVars, main, g_anti_jam_enabled,
                      g_switch_prev_enabled, ChannelData, rc_read,
                      reset_pending>>

anti_jamming_register_packet ==
    \E t \in TimesAfter(FacadeTimeSteps), good \in {0, 2} :
        FacadeDetectorCall("register_packet",
            aj_register_packet(aj, IF good # 0 THEN 1 ELSE 0, t),
            PacketBoundary(aj, IF good # 0 THEN 1 ELSE 0, t), t)

anti_jamming_register_external_jam ==
    \E t \in TimesAfter(FacadeTimeSteps) :
        FacadeDetectorCall("register_external_jam",
            aj_register_external_jam(aj, t), NoBoundary, t)

(* aj_switch_process_from_rc, then aj_tick; a notification of the reader   *)
(* would reach aj_switch_notify_cb before the tick                         *)
anti_jamming_service_tick ==
    \E t \in TimesAfter(FacadeTimeSteps),
       rc \in { RcChannels(0, AJ_SWITCH_MODE_AUTO),
                RcChannels(1, AJ_SWITCH_MODE_HIGH) } :
        LET r == aj_switch_process_from_rc(sw, rc, t)
            f == DeliverNotes(FacadeNow, r.notes)
            c == aj_tick(f.aj, t)
        IN /\ nops < MaxFacadeOps
           /\ nops' = nops + 1
           /\ aj_op' = "tick"
           /\ sw' = r.ctx
           /\ sw_obs' = IF r.ctx = sw THEN sw_obs
                        ELSE [op |-> "process_from_rc", null |-> FALSE,
                              arg |-> rc.enable, when_ms |-> t, pre |-> sw,
                              ret |-> r.ret, notes |-> r.notes]
           /\ g_anti_jam_enabled' = f.enabled
           /\ g_switch_prev_enabled' = f.prev
           /\ aj' = c
           /\ clock' = t
           /\ hop' = HopObserve(NotFired(c), t)
           /\ win' = WinObserve(c, TickBoundary(f.aj, t), t, FALSE)
           /\ fc' = [op |-> "tick", delivered |-> FALSE, sugg |-> NoSuggestion,
                     hopped |-> FALSE, calls |-> << >>, notes |-> r.notes,
                     rc |-> rc]
           /\ UNCHANGED <<aj_shift, FHSSptr, FHSSptrSynced, FHSSHopCycleArmed,
                          FHSSSyncEpoch, bandVars, gl, main, ChannelData,
                          rc_read, reset_pending>>

ForceSyncedHop ==
    LET h == anti_jamming_force_synced_hop(GlockNow, g_anti_jam_enabled,
                 FHSSuseDualBand, FHSSusePrimaryFreqBand)
    IN /\ nops < MaxFacadeOps
       /\ nops' = nops + 1
       /\ aj_op' = "force_synced_hop"
       /\ SetGlock(h.g)
       /\ gl' = GlAfter(h)
       /\ fc' = [op |-> "force_synced_hop", delivered |-> FALSE,
                 sugg |-> NoSuggestion, hopped |-> h.hopped,
                 calls |-> h.calls, notes |-> << >>, rc |-> NoRc]
       /\ UNCHANGED <<aj, clock, hop, win, aj_shift, swVars, bandVars, main,
                      g_anti_jam_enabled, g_switch_prev_enabled, ChannelData,
                      rc_read, reset_pending>>

(* a switch operation on g_aj_switch_ctx; its notifications reach          *)
(* aj_switch_notify_cb                                                     *)
FacadeSwitchCall(op, arg) ==
    LET r == SwitchApply(op, sw, FALSE, arg, clock)
        f == DeliverNotes(FacadeNow, r.notes)
    IN /\ nops < MaxFacadeOps
       /\ nops' = nops + 1
       /\ aj_op' = "switch"
       /\ sw' = r.ctx
       /\ sw_obs' = [op |-> op, null |-> FALSE, arg |-> arg, when_ms |-> clock,
                     pre |-> sw, ret |-> r.ret, notes |-> r.notes]
       /\ aj' = f.aj
       /\ g_anti_jam_enabled' = f.enabled
       /\ g_switch_prev_enabled' = f.prev
       /\ hop' = IF f.aj = aj THEN [hop EXCEPT !.fired = FALSE,
                                               !.sugg = NoSuggestion]
                 ELSE HopDisturb
       /\ win' = IF f.aj = aj THEN win ELSE WinReset(f.aj)
       /\ fc' = [op |-> "switch", delivered |-> FALSE, sugg |-> NoSuggestion,
                 hopped |-> FALSE, calls |-> << >>, notes |-> r.notes,
                 rc |-> NoRc]
       /\ UNCHANGED <<clock, aj_shift, FHSSptr, FHSSptrSynced, FHSSHopCycleArmed,
                      FHSSSyncEpoch, bandVars, gl, main, ChannelData, rc_read,
                      reset_pending>>

NextFacade ==
    \/ anti_jamming_register_packet
    \/ anti_jamming_register_external_jam
    \/ anti_jamming_service_tick
    \/ ForceSyncedHop
    \/ \E enable \in {0, 1} : FacadeSwitchCall("set_enabled", enable)
    \/ \E mode \in {AJ_SWITCH_MODE_LOW, AJ_SWITCH_MODE_HIGH} :
          FacadeSwitchCall("set_mode_from_controller", mode)
    \/ FacadeSwitchCall("reset", 0)

SpecFacade == FacadeInit /\ [][NextFacade]_vars

(* the stores of aj_reset: the three ring fields, and the rest of the      *)
(* context as one store; a build may make them in any order                *)
ResetStores == {"count", "head", "bad_count", "rest"}

(* the main loop enables anti-jamming through the switch and makes the     *)
(* stores of the OFF->ON hook's aj_reset one by one, with no critical      *)
(* section; a radio interrupt calling anti_jamming_register_packet         *)
(* preempts it at any point and runs to completion                         *)
NextIrq ==
    (* the interrupt's whole call *)
    \/ anti_jamming_register_packet
    (* aj_switch_set_enabled up to the entry of aj_reset, or up to its     *)
    (* return when the notify callback does not reset                      *)
    \/ \E enable \in {0, 1} :
          LET r == SwitchApply("set_enabled", sw, FALSE, enable, clock)
              e == IF r.notes # << >> /\ Head(r.notes).enabled # 0
                   THEN 1 ELSE 0
              starts == r.notes # << >> /\ e # 0 /\ g_switch_prev_enabled = 0
          IN /\ reset_pending = {}
             /\ nops < MaxFacadeOps
             /\ nops' = nops + 1
             /\ aj_op' = "switch"
             /\ sw' = r.ctx
             /\ sw_obs' = [op |-> "set_enabled", null |-> FALSE,
                           arg |-> enable, when_ms |-> clock, pre |-> sw,
                           ret |-> r.ret, notes |-> r.notes]
             /\ g_anti_jam_enabled' =
                    IF r.notes # << >> THEN e ELSE g_anti_jam_enabled
             /\ g_switch_prev_enabled' =
                    IF r.notes # << >> /\ ~starts THEN e
                    ELSE g_switch_prev_enabled
             /\ reset_pending' = IF starts THEN ResetStores ELSE {}
             /\ hop' = [hop EXCEPT !.fired = FALSE, !.sugg = NoSuggestion]
             /\ fc' = [op |-> "switch", delivered |-> FALSE,
                       sugg |-> NoSuggestion, hopped |-> FALSE,
                       calls |-> << >>, notes |-> r.notes, rc |-> NoRc]
             /\ UNCHANGED <<aj, clock, win, aj_shift, glVars, ChannelData,
                            rc_read>>
    (* one store of aj_reset; after the last one the notify callback       *)
    (* records the transition                                              *)
    \/ \E s \in reset_pending :
          /\ reset_pending' = reset_pending \ {s}
          /\ aj' = CASE s = "count" -> [aj EXCEPT !.count = 0]
                      [] s = "head" -> [aj EXCEPT !.head = 0]
                      [] s = "bad_count" -> [aj EXCEPT !.bad_count = 0]
                      [] OTHER -> [aj_reset(aj) EXCEPT !.count = aj.count,
                                                      !.head = aj.head,
                                                      !.bad_count = aj.bad_count]
          /\ g_switch_prev_enabled' =
                 IF reset_pending = {s} THEN g_anti_jam_enabled
                 ELSE g_switch_prev_enabled
          /\ aj_op' = "reset"
          /\ hop' = HopDisturb
          /\ win' = WinReset(aj')
          /\ UNCHANGED <<clock, nops, aj_shift, swVars, glVars,
                         g_anti_jam_enabled, fc, ChannelData, rc_read>>

SpecIrq == FacadeInit /\ [][NextIrq]_vars

(***************************************************************************)
(* Claims about the integration layer                                      *)
(***************************************************************************)
(* one synced hop happened in the step: one cycle opened, cursor +1,       *)
(* epoch +1, radio 1 called first (it advances), radio 2 second            *)
OneSyncedHop ==
    /\ FHSSSyncEpoch' = (FHSSSyncEpoch + 1) % TsModulus
    /\ FHSSptrSynced' = (FHSSptrSynced + 1) % SeqCount
    /\ FHSSptr' = FHSSptrSynced'
    /\ FHSSHopCycleArmed' = 0
    /\ gl'.K = gl.K + 1
    /\ gl'.calls = 2
    /\ fc'.calls =
         << [radio |-> FHSS_RADIO_1, advanced |-> TRUE,
             freq |-> RadioFreq(FHSS_RADIO_1, FHSSptrSynced',
                                FHSSuseDualBand, FHSSusePrimaryFreqBand)],
            [radio |-> FHSS_RADIO_2, advanced |-> FALSE,
             freq |-> RadioFreq(FHSS_RADIO_2, FHSSptrSynced',
                                FHSSuseDualBand, FHSSusePrimaryFreqBand)] >>

GlockUntouched ==
    /\ UNCHANGED <<FHSSptr, FHSSptrSynced, FHSSHopCycleArmed, FHSSSyncEpoch, gl>>
    /\ fc'.calls = << >>

(* C24: when anti_jamming_service_tick runs while the RC enable channel    *)
(* indicates ON, the RC reader applies that (enable, mode) to the switch   *)
(* context, so the switch becomes enabled, the notification is delivered   *)
(* and the integration layer's enabled flag becomes 1.                     *)
C24_RcTurnsHoppingOn ==
    (fc.op = "tick" /\ fc.rc.enable = 1) =>
        /\ sw.enabled = 1
        /\ sw.mode = fc.rc.mode
        /\ g_anti_jam_enabled = 1

(* C11: a hop recommendation delivered to the hop callback while the       *)
(* integration layer is enabled opens exactly one Glock cycle and calls    *)
(* FHSSHopNextSynced for radio 1 then radio 2 (cursor +1, epoch +1); one   *)
(* delivered while it is disabled leaves cursor, armed flag and epoch      *)
(* unchanged.                                                              *)
C11_RecommendationHopsWhenEnabled ==
    [][fc'.delivered =>
          IF g_anti_jam_enabled # 0 THEN OneSyncedHop ELSE GlockUntouched]_vars

(* a recommendation was delivered while enabled, in a second hop cycle *)
C11_Witness ==
    /\ fc.delivered
    /\ fc.sugg.recommend = 1
    /\ g_anti_jam_enabled = 1
    /\ fc.hopped
    /\ gl.K = 2

(* C12: anti_jamming_force_synced_hop performs one synced hop whatever the *)
(* detector's state or pacing when the layer is enabled, and changes       *)
(* nothing in the Glock state when it is disabled.                         *)
C12_ForcedHopHonoursEnabled ==
    [][fc'.op = "force_synced_hop" =>
          /\ UNCHANGED <<aj, sw, g_anti_jam_enabled, g_switch_prev_enabled>>
          /\ IF g_anti_jam_enabled # 0 THEN OneSyncedHop
             ELSE GlockUntouched]_vars

(* a forced hop done while the detector recommends nothing *)
C12_Witness ==
    /\ fc.op = "force_synced_hop"
    /\ fc.hopped
    /\ aj.state = AJ_STATE_NOT_JAMMED
    /\ aj.last_report.recommend_hop = 0

(* C13: a switch notification that takes the enabled flag from 0 to 1      *)
(* resets the detector context (NOT_JAMMED, ring empty, bad_count 0,       *)
(* streak 0, external-jam flag cleared); one that takes it from 1 to 0 or  *)
(* leaves it unchanged leaves the detector context unchanged.              *)
C13_ResetOnEnableOnly ==
    [][(fc'.op = "switch" /\ fc'.notes # << >>) =>
          IF g_anti_jam_enabled = 0 /\ g_anti_jam_enabled' = 1
          THEN /\ aj'.state = AJ_STATE_NOT_JAMMED
               /\ aj'.count = 0
               /\ aj'.bad_count = 0
               /\ aj'.jam_streak = 0
               /\ aj'.ext_jam_recent = 0
               /\ aj' = aj_reset(aj)
          ELSE aj' = aj]_vars

(* the enable notification reset a detector that held packets *)
C13_Witness ==
    /\ fc.op = "switch"
    /\ fc.notes # << >>
    /\ g_anti_jam_enabled = 1
    /\ hop.disturbed
    /\ aj.count = 0
    /\ nops = MaxFacadeOps

(***************************************************************************)
(* Claims about the detector                                               *)
(***************************************************************************)

(* C1: with a fixed configuration and non-decreasing timestamps, a hop     *)
(* callback fired by aj_register_packet or aj_register_external_jam comes  *)
(* at least the effective min_time_between_reco_ms after the previous one. *)
C1_RateLimit ==
    (hop.fired /\ hop.prev_ms # NoFire)
        => hop.last_ms - hop.prev_ms >= aj.cfg.min_time_between_reco_ms

(* a second callback fired exactly min_time_between_reco_ms after the first *)
C1_Witness ==
    /\ hop.fired
    /\ hop.prev_ms # NoFire
    /\ hop.last_ms - hop.prev_ms = aj.cfg.min_time_between_reco_ms

(* C14: aj_tick never invokes the hop callback and never updates           *)
(* last_reco_ms, in any state and either window mode, even when the report *)
(* it refreshes recommends a hop; only aj_register_packet and              *)
(* aj_register_external_jam fire the callback.                             *)
C14_TickNeverFires ==
    [][/\ aj_op' = "tick" =>
            /\ aj'.last_reco_ms = aj.last_reco_ms
            /\ ~hop'.fired
       /\ hop'.fired =>
            aj_op' \in {"register_packet", "register_external_jam"}]_vars

(* a BY_TIME tick with a callback registered whose report recommends a hop *)
C14_Witness ==
    /\ aj_op = "tick"
    /\ aj.hop_cb
    /\ aj.cfg.window_mode = AJ_WINDOW_BY_TIME
    /\ aj.state = AJ_STATE_JAMMED
    /\ aj.last_report.recommend_hop = 1

(* the timestamps aj_tick is tried with in a state *)
TickTimes == TimesAfter(AnyTimeSteps) \cup {(clock + 2) % TsModulus,
                                           (clock + 2 * DefaultMinRecoMs) % TsModulus}

(* C15: in every reachable context and for every timestamp t, a second     *)
(* aj_tick(t) right after aj_tick(t) leaves the cached report (state,      *)
(* score, confidence, recommend_hop, hint, when) as the first left it, in  *)
(* both window modes, also when the first call processes a window boundary *)
(* or ages out the external-jam flag.                                      *)
C15_TickIdempotent ==
    \A t \in TickTimes :
        aj_tick(aj_tick(aj, t), t).last_report = aj_tick(aj, t).last_report

(* a context on which one tick both changes the state at a window boundary *)
(* and, at another time, ages out the external-jam flag                    *)
C15_Witness ==
    /\ \E t \in TickTimes :
          /\ TickBoundary(aj, t).boundary
          /\ aj_tick(aj, t).state # aj.state
    /\ \E t \in TickTimes :
          /\ aj.ext_jam_recent = 1
          /\ aj_tick(aj, t).ext_jam_recent = 0
          /\ aj_tick(aj, t).last_report.score # calc_score(aj)

(* C16: the detector enters JAMMED only at a jammy window boundary that is *)
(* the last of at least consecutive_windows_to_jam consecutive jammy       *)
(* boundaries (no non-jammy boundary, aj_reset or aj_configure between);   *)
(* with consecutive_windows_to_jam >= 2 it enters from SUSPECT, never from *)
(* NOT_JAMMED in one boundary.                                             *)
C16_JammedAfterConsecutiveJammy ==
    (aj.state = AJ_STATE_JAMMED /\ win.pre_state # AJ_STATE_JAMMED) =>
        /\ win.boundary
        /\ win.jammy
        /\ win.run >= aj.cfg.consecutive_windows_to_jam
        /\ aj.cfg.consecutive_windows_to_jam >= 2
              => win.pre_state = AJ_STATE_SUSPECT

(* JAMMED entered from SUSPECT at the second jammy boundary in a row *)
C16_Witness ==
    /\ aj.state = AJ_STATE_JAMMED
    /\ win.pre_state = AJ_STATE_SUSPECT
    /\ aj.cfg.consecutive_windows_to_jam = 2
    /\ win.run = 2

(* C17: once JAMMED is entered at t0, and absent aj_reset, the state stays *)
(* JAMMED at every operation whose timestamp is earlier than               *)
(* t0 + jam_state_hold_time_ms; it leaves JAMMED only to SUSPECT, at a     *)
(* non-jammy boundary, and does so once such a boundary is seen with       *)
(* now - t0 >= jam_state_hold_time_ms.                                     *)
C17_HoldTime ==
    (win.pre_state = AJ_STATE_JAMMED /\ aj_op # "reset") =>
        /\ clock < win.t0 + aj.cfg.jam_state_hold_time_ms
              => aj.state = AJ_STATE_JAMMED
        /\ aj.state # AJ_STATE_JAMMED =>
              /\ aj.state = AJ_STATE_SUSPECT
              /\ win.boundary /\ ~win.jammy
              /\ clock - win.t0 >= aj.cfg.jam_state_hold_time_ms
        /\ (win.boundary /\ ~win.jammy
              /\ clock - win.t0 >= aj.cfg.jam_state_hold_time_ms)
              => aj.state = AJ_STATE_SUSPECT

(* JAMMED left for SUSPECT exactly when a positive hold time had elapsed *)
C17_Witness ==
    /\ win.pre_state = AJ_STATE_JAMMED
    /\ aj.state = AJ_STATE_SUSPECT
    /\ aj.cfg.jam_state_hold_time_ms > 0
    /\ clock - win.t0 = aj.cfg.jam_state_hold_time_ms

(* the last operation computed the report *)
ReportComputed ==
    aj_op \in {"register_packet", "register_external_jam", "tick"}

(* the pacing test as the claim states it, on last_reco_ms as it was when  *)
(* the report was computed                                                 *)
PacingAtReport ==
    Sub32(aj.last_report.when, win.prev_reco_ms)
        >= aj.cfg.min_time_between_reco_ms

(* C18 as stated: for every context and every jam_threshold_percent in     *)
(* 1..100, the report's recommend_hop is 1 iff (state = JAMMED or (state = *)
(* SUSPECT and score >= jam_threshold_percent + 10)) and                   *)
(* now - last_reco_ms >= min_time_between_reco_ms.                         *)
C18_Original ==
    (ReportComputed /\ aj.cfg.jam_threshold_percent \in 1..100) =>
        (aj.last_report.recommend_hop = 1 <=>
            /\ \/ aj.state = AJ_STATE_JAMMED
               \/ /\ aj.state = AJ_STATE_SUSPECT
                  /\ aj.last_report.score >= aj.cfg.jam_threshold_percent + 10
            /\ PacingAtReport)

(* C18, amended: the report's recommend_hop is 1 iff (state = JAMMED or    *)
(* (state = SUSPECT and score >= min(jam_threshold_percent + 10, 100)))    *)
(* and now - last_reco_ms >= min_time_between_reco_ms.                     *)
C18_RecommendIffPolicyAndPacing ==
    (ReportComputed /\ aj.cfg.jam_threshold_percent \in 1..100) =>
        (aj.last_report.recommend_hop = 1 <=>
            /\ \/ aj.state = AJ_STATE_JAMMED
               \/ /\ aj.state = AJ_STATE_SUSPECT
                  /\ aj.last_report.score >=
                        (IF aj.cfg.jam_threshold_percent + 10 > 100 THEN 100
                         ELSE aj.cfg.jam_threshold_percent + 10)
            /\ PacingAtReport)

(* a threshold above 90: SUSPECT at score 100 recommends *)
C18_Witness ==
    /\ ReportComputed
    /\ aj.cfg.jam_threshold_percent > 90
    /\ aj.state = AJ_STATE_SUSPECT
    /\ aj.last_report.score = 100
    /\ aj.last_report.recommend_hop = 1

(* the last operation was the aj_register_packet call that completed the   *)
(* first full window of a BY_COUNT context, and that window met both       *)
(* jam criteria                                                            *)
FirstWindowJammy ==
    /\ aj_op = "register_packet"
    /\ aj.cfg.window_mode = AJ_WINDOW_BY_COUNT
    /\ win.boundary
    /\ win.nbound = 1
    /\ aj.bad_count >= aj.cfg.min_bad_packets
    /\ (aj.bad_count * 100) \div aj.count >= aj.cfg.jam_threshold_percent

(* C19 as stated: BY_COUNT, consecutive_windows_to_jam = 1,                *)
(* min_time_between_reco_ms configured as 0, callback registered on a      *)
(* fresh context: the aj_register_packet call completing the first full    *)
(* jammy window leaves the state JAMMED and fires the hop callback exactly *)
(* once during that call, whatever timestamp the packets carry.            *)
C19_Original ==
    (FirstWindowJammy /\ aj.cfg.consecutive_windows_to_jam = 1) =>
        /\ aj.state = AJ_STATE_JAMMED
        /\ hop.fired
        /\ win.fires = 1

(* C19, amended: under the same configuration, that call leaves the state  *)
(* JAMMED, and fires the hop callback exactly once during the call if its  *)
(* timestamp is at least 500 ms (the value the code substitutes for a      *)
(* configured 0), and not at all if the timestamp is below 500 ms.         *)
C19_FirstJammyWindowJamsAndFiresWhenPaced ==
    (FirstWindowJammy /\ aj.cfg.consecutive_windows_to_jam = 1) =>
        /\ aj.state = AJ_STATE_JAMMED
        /\ hop.fired <=> clock >= DefaultMinRecoMs
        /\ win.fires = (IF clock >= DefaultMinRecoMs THEN 1 ELSE 0)

(* the first jammy window completes at 500 ms or later and the callback    *)
(* fires                                                                   *)
C19_Witness ==
    /\ FirstWindowJammy
    /\ aj.cfg.consecutive_windows_to_jam = 1
    /\ aj.cfg.window_size_packets = 2
    /\ aj.state = AJ_STATE_JAMMED
    /\ clock >= DefaultMinRecoMs
    /\ hop.fired

(* every window completed so far on a BY_COUNT context debounced over      *)
(* k >= 2 windows was jammy, and every report's score stayed below margin  *)
JammyRunBelow(margin) ==
    /\ aj.cfg.window_mode = AJ_WINDOW_BY_COUNT
    /\ aj.cfg.consecutive_windows_to_jam >= 2
    /\ win.run = win.nbound
    /\ win.peak < margin

(* the last operation completed the k-th window *)
AtKthBoundary ==
    win.boundary /\ win.nbound = aj.cfg.consecutive_windows_to_jam

(* the states after the successive boundaries, and no callback before the  *)
(* k-th boundary                                                           *)
SuspectThenJammed ==
    /\ (win.nbound >= 1 /\ win.nbound < aj.cfg.consecutive_windows_to_jam)
          => aj.state = AJ_STATE_SUSPECT
    /\ win.nbound < aj.cfg.consecutive_windows_to_jam => win.fires = 0
    /\ AtKthBoundary =>
          aj.state = AJ_STATE_JAMMED /\ aj_op = "register_packet"

(* C20 as stated: consecutive_windows_to_jam = k >= 2 in BY_COUNT mode, k  *)
(* consecutive jammy full windows, score below jam_threshold_percent + 10  *)
(* throughout: the state after the successive boundaries is SUSPECT (k-1   *)
(* times) and then JAMMED, no callback fires before the k-th boundary, and *)
(* exactly one callback fires on the packet that completes the k-th window.*)
C20_Original ==
    JammyRunBelow(aj.cfg.jam_threshold_percent + 10) =>
        /\ SuspectThenJammed
        /\ AtKthBoundary => (hop.fired /\ win.fires = 1)

(* C20, amended: the same with the score below                             *)
(* min(jam_threshold_percent + 10, 100) throughout, and with exactly one   *)
(* callback on the packet that completes the k-th window if that packet's  *)
(* timestamp is at least min_time_between_reco_ms (500 when configured as  *)
(* 0) after last_reco_ms, and no callback on it otherwise.                 *)
C20_SuspectThenJammedOneCallbackWhenPaced ==
    JammyRunBelow(u32_clamp(aj.cfg.jam_threshold_percent + 10, 0, 100)) =>
        /\ SuspectThenJammed
        /\ AtKthBoundary =>
              /\ hop.fired <=>
                    Sub32(clock, win.prev_reco_ms)
                        >= aj.cfg.min_time_between_reco_ms
              /\ win.fires = (IF hop.fired THEN 1 ELSE 0)

(* two jammy windows at 50% bad against a threshold of 50: the second      *)
(* boundary enters JAMMED and fires the one callback                       *)
C20_Witness ==
    /\ JammyRunBelow(u32_clamp(aj.cfg.jam_threshold_percent + 10, 0, 100))
    /\ AtKthBoundary
    /\ win.pre_state = AJ_STATE_SUSPECT
    /\ aj.state = AJ_STATE_JAMMED
    /\ hop.fired
    /\ win.fires = 1

(* the group-switch rule as the claim states it, on the reported score *)
GroupSwitchExpected ==
    IF aj.cfg.allow_group_switch_suggestions # 0
       /\ (aj.last_report.score >= 80 \/ aj.ext_jam_recent # 0)
    THEN 1 ELSE 0

(* C21: after aj_register_external_jam on a context holding at least one   *)
(* packet the reported score is min(100, bad_count*100/count + 10), and    *)
(* the suggestion of aj_evaluate_hop, and the one delivered to the         *)
(* callback, has suggest_group_switch = 1 exactly when                     *)
(* allow_group_switch_suggestions is non-zero and (score >= 80 or the      *)
(* external-jam flag is set).                                              *)
C21_ExternalJamScoreAndGroupSwitch ==
    /\ (aj_op = "register_external_jam" /\ aj.count > 0) =>
          LET pct == (aj.bad_count * 100) \div aj.count
          IN aj.last_report.score = (IF pct + 10 > 100 THEN 100 ELSE pct + 10)
    /\ aj_evaluate_hop(aj).suggest_group_switch = GroupSwitchExpected
    /\ hop.fired => hop.sugg.suggest_group_switch = GroupSwitchExpected

(* an external jam on an all-good window: score 10, group switch suggested *)
C21_Witness ==
    /\ aj_op = "register_external_jam"
    /\ aj.count > 0
    /\ aj.bad_count = 0
    /\ aj.last_report.score = 10
    /\ aj.cfg.allow_group_switch_suggestions # 0
    /\ aj_evaluate_hop(aj).suggest_group_switch = 1

(* the effective configuration is the input cfg with its out-of-range      *)
(* values brought into range and every other value as given                *)
TakenWithRangesEnforced(cfg) ==
    /\ aj.capacity = (IF cfg.window_size_packets = 0 THEN 1
                      ELSE cfg.window_size_packets)
    /\ aj.cfg.window_size_packets = cfg.window_size_packets
    /\ aj.cfg.window_mode = cfg.window_mode
    /\ aj.cfg.min_bad_packets = cfg.min_bad_packets
    /\ aj.cfg.jam_state_hold_time_ms = cfg.jam_state_hold_time_ms
    /\ aj.cfg.allow_group_switch_suggestions = cfg.allow_group_switch_suggestions
    /\ aj.cfg.jam_threshold_percent =
          (IF cfg.jam_threshold_percent > 100 THEN 100
           ELSE IF cfg.jam_threshold_percent < 1 THEN 1
           ELSE cfg.jam_threshold_percent)
    /\ cfg.consecutive_windows_to_jam >= 1 =>
          aj.cfg.consecutive_windows_to_jam = cfg.consecutive_windows_to_jam
    /\ cfg.min_time_between_reco_ms >= 1 =>
          aj.cfg.min_time_between_reco_ms = cfg.min_time_between_reco_ms
    /\ cfg.window_duration_ms >= 1 =>
          aj.cfg.window_duration_ms = cfg.window_duration_ms

(* C22: after aj_init and after every aj_configure, for any input          *)
(* configuration, the effective configuration satisfies: ring capacity     *)
(* >= 1, jam_threshold_percent in [1,100], consecutive_windows_to_jam      *)
(* >= 1, min_time_between_reco_ms >= 1, and window_duration_ms >= 1 when   *)
(* window_mode is BY_TIME; out-of-range inputs are brought into range      *)
(* rather than rejected.                                                   *)
C22_EffectiveConfigInRange ==
    /\ aj.capacity >= 1
    /\ aj.cfg.jam_threshold_percent \in 1..100
    /\ aj.cfg.consecutive_windows_to_jam >= 1
    /\ aj.cfg.min_time_between_reco_ms >= 1
    /\ aj.cfg.window_mode = AJ_WINDOW_BY_TIME => aj.cfg.window_duration_ms >= 1
    /\ \E cfg \in CfgInputs : TakenWithRangesEnforced(cfg)

(* aj_configure with a configuration whose size, duration, threshold and   *)
(* debounce are all 0 has taken effect                                     *)
C22_Witness ==
    /\ aj_op = "configure"
    /\ aj.cfg.window_size_packets = 0
    /\ aj.capacity = 1
    /\ aj.cfg.jam_threshold_percent = 1
    /\ aj.cfg.consecutive_windows_to_jam = 1
    /\ aj.cfg.window_duration_ms = DefaultWindowDurationMs

(* C23: after any sequence of aj_configure calls, the ring capacity used   *)
(* by aj_register_packet never exceeds the capacity the caller's buffer    *)
(* was sized for at aj_init, so every ring index written or read lies      *)
(* inside the preallocated entries.                                        *)
C23_CapacityWithinBuffer ==
    /\ aj_op = "register_packet" => aj.capacity <= BufferEntries
    /\ aj_op # "out_of_bounds"

(* C25: immediately after any aj_register_packet,                          *)
(* aj_register_external_jam or aj_tick call, the cached report's           *)
(* recommend_hop equals the recommend field that aj_evaluate_hop returns   *)
(* for the same context.                                                   *)
C25_ReportEqualsEvaluateHop ==
    ReportComputed =>
        aj.last_report.recommend_hop = aj_evaluate_hop(aj).recommend

(* C27: in BY_COUNT mode, from a freshly initialised or reset context with *)
(* capacity C and no reconfiguration, window-boundary logic runs exactly   *)
(* once on each aj_register_packet call whose ordinal is a multiple of C   *)
(* (the C-th, 2C-th, ...) and on no other call.                            *)
C27_BoundaryEveryCapacityPackets ==
    (aj.cfg.window_mode = AJ_WINDOW_BY_COUNT /\ win.npk # NoFire) =>
        /\ aj_op = "register_packet" =>
              (win.boundary <=> win.npk % aj.capacity = 0)
        /\ aj_op # "register_packet" => ~win.boundary

(* the fourth packet into a ring of two: the second boundary *)
C27_Witness ==
    /\ aj.cfg.window_mode = AJ_WINDOW_BY_COUNT
    /\ aj_op = "register_packet"
    /\ aj.capacity = 2
    /\ win.npk = 4
    /\ win.boundary

(* C28: whenever window_mode is BY_TIME and the timestamps passed in are   *)
(* non-decreasing, after every completed aj_register_packet,               *)
(* aj_register_external_jam, aj_tick, and aj_configure that switches to    *)
(* BY_TIME or shortens window_duration_ms, every live ring entry has       *)
(* ts >= now - window_duration_ms, now being the context's last seen time. *)
C28_EntriesWithinTimeWindow ==
    ( /\ aj.cfg.window_mode = AJ_WINDOW_BY_TIME
      /\ aj_op \in {"register_packet", "register_external_jam", "tick",
                    "configure"} )
        => \A i \in LiveSlots(aj) :
              aj.entries[i].ts >= aj.last_now_ms - aj.cfg.window_duration_ms

(* C29: all detector time comparisons are computed on unsigned 32-bit      *)
(* differences, so a run whose timestamps wrap once inside a window or     *)
(* hold interval prunes the same entries and makes the same state          *)
(* transitions and callback decisions as the same run shifted so that no   *)
(* wrap occurs.                                                            *)
C29_WrapMakesNoDifference ==
    /\ aj.count = aj_shift.ctx.count
    /\ aj.bad_count = aj_shift.ctx.bad_count
    /\ aj.state = aj_shift.ctx.state
    /\ aj.jam_streak = aj_shift.ctx.jam_streak
    /\ aj.ext_jam_recent = aj_shift.ctx.ext_jam_recent
    /\ aj.last_report.score = aj_shift.ctx.last_report.score
    /\ aj.last_report.recommend_hop = aj_shift.ctx.last_report.recommend_hop
    /\ hop.fired = aj_shift.fired

(* C32: the mirrored cursor FHSSptrSynced equals the hop cursor FHSSptr,   *)
(* and both are below FHSSgetSequenceCount(), after any sequence of        *)
(* FHSSsetCurrIndex, legacy FHSSgetNextFreq, and                           *)
(* FHSSBeginHopCycle/FHSSHopNextSynced calls.                              *)
C32_SyncedCursorMirrorsHopCursor ==
    /\ FHSSptrSynced = FHSSptr
    /\ FHSSptr < SeqCount
    /\ FHSSptrSynced < SeqCount

(* C33: rc_read_us returns a value in [1000, 2000] for every channel       *)
(* number and every 16-bit raw channel value: 1500 when ch is outside      *)
(* 1..16, otherwise clamp((raw - 172)*1000/1639 + 1000, 1000, 2000)        *)
(* computed without integer overflow, mapping 172 to 1000, 1811 to 2000,   *)
(* and being non-decreasing in raw.                                        *)
C33_RcReadUsInRange ==
    aj_op = "rc_read_us" =>
       LET ch == rc_read.ch
           raw == ChannelData[ch - 1]
       IN /\ rc_read.us >= 1000 /\ rc_read.us <= 2000
          /\ (ch < 1 \/ ch > 16) => rc_read.us = 1500
          /\ (ch >= 1 /\ ch <= 16) =>
                /\ (raw - 172) * 1000 < 2147483647
                /\ raw <= 172 => rc_read.us = 1000
                /\ (raw > 172 /\ raw < 1811) =>
                      rc_read.us = ((raw - 172) * 1000) \div 1639 + 1000
                /\ raw >= 1811 => rc_read.us = 2000
                /\ raw < 65535 =>
                      rc_read.us <= rc_read_us([i \in 0..15 |-> raw + 1], 1)

(* a read of the last channel with a raw value inside the CRSF range that  *)
(* maps strictly inside 1000..2000                                         *)
C33_Witness ==
    /\ aj_op = "rc_read_us"
    /\ rc_read.ch = 16
    /\ ChannelData[15] = 992
    /\ rc_read.us = 1500

(* C34: once the integration layer's notify callback is registered on the  *)
(* switch context, g_anti_jam_enabled equals the switch context's enabled  *)
(* value after any sequence of switch operations, aj_switch_reset          *)
(* included.                                                               *)
C34_FacadeEnabledFollowsSwitch ==
    sw.cb => g_anti_jam_enabled = sw.enabled

(* C35: the recommendation pacing also holds across aj_reset and           *)
(* aj_configure: with non-decreasing timestamps, no hop callback fires     *)
(* less than the effective min_time_between_reco_ms after the previous hop *)
(* callback, even when aj_reset or aj_configure was called between the two *)
C35_PacingAcrossResetAndConfigure ==
    (hop.fired /\ hop.prev_ms # NoFire)
        => Sub32(hop.last_ms, hop.prev_ms) >= aj.cfg.min_time_between_reco_ms

(* C36: after aj_init or aj_reset no hop callback fires until              *)
(* window-boundary logic has run at least once: the callback fires only    *)
(* while the state is SUSPECT or JAMMED, the state leaves NOT_JAMMED only  *)
(* at a window boundary, and in BY_COUNT mode none fires during the first  *)
(* capacity - 1 packets registered after the reset, whatever their         *)
(* good/bad mix and even if aj_register_external_jam is called.            *)
C36_NoCallbackBeforeFirstBoundary ==
    [][ /\ hop'.fired => aj'.state \in {AJ_STATE_SUSPECT, AJ_STATE_JAMMED}
        /\ (aj.state = AJ_STATE_NOT_JAMMED /\ aj'.state # AJ_STATE_NOT_JAMMED)
              => win'.boundary
        /\ aj_op' \in {"init", "reset"} => aj'.state = AJ_STATE_NOT_JAMMED
        /\ ( /\ aj'.cfg.window_mode = AJ_WINDOW_BY_COUNT
             /\ win'.npk # NoFire
             /\ win'.npk < aj'.capacity )
              => (~hop'.fired /\ aj'.state = AJ_STATE_NOT_JAMMED) ]_vars

(* the first packet after an aj_reset that followed a callback: a bad      *)
(* packet in a window of two, with an external jam reported, and no        *)
(* callback                                                                *)
C36_Witness ==
    /\ aj.cfg.window_mode = AJ_WINDOW_BY_COUNT
    /\ aj.capacity = 2
    /\ win.npk = 1
    /\ aj.bad_count = 1
    /\ hop.last_ms # NoFire
    /\ hop.disturbed
    /\ ~hop.fired
    /\ aj.last_report.score > 0

(* the jam state, jam_streak or last_jam_change_ms differs across the step *)
JamStateChanged ==
    \/ aj'.state # aj.state
    \/ aj'.jam_streak # aj.jam_streak
    \/ aj'.last_jam_change_ms # aj.last_jam_change_ms

(* the operations that run no window-boundary logic in the context's mode: *)
(* BY_COUNT aj_tick and aj_register_external_jam, BY_TIME                  *)
(* aj_register_packet and aj_register_external_jam, leave all three alone  *)
NoBoundaryOpsKeepJamState ==
    /\ ( /\ aj.cfg.window_mode = AJ_WINDOW_BY_COUNT
         /\ aj_op' \in {"tick", "register_external_jam"} ) => ~JamStateChanged
    /\ ( /\ aj.cfg.window_mode = AJ_WINDOW_BY_TIME
         /\ aj_op' \in {"register_packet", "register_external_jam"} )
            => ~JamStateChanged

(* C38 as stated: the jam state, jam_streak and last_jam_change_ms change *)
(* only where window-boundary logic runs or in aj_reset; in BY_COUNT mode  *)
(* aj_tick and aj_register_external_jam never change them, and in BY_TIME  *)
(* mode aj_register_packet and aj_register_external_jam never change them. *)
C38_JamStateChangesOnlyAtBoundaryOrReset ==
    [][ /\ JamStateChanged => (win'.boundary \/ aj_op' = "reset")
        /\ NoBoundaryOpsKeepJamState ]_vars

(* C38 amended: the state and last_jam_change_ms change only where         *)
(* window-boundary logic runs or in aj_reset; jam_streak changes there and *)
(* in aj_configure, which sets it to 0; the operations that run no         *)
(* boundary logic in the context's mode change none of the three.          *)
C38_JamStateFrame ==
    [][ /\ ( \/ aj'.state # aj.state
             \/ aj'.last_jam_change_ms # aj.last_jam_change_ms )
               => (win'.boundary \/ aj_op' = "reset")
        /\ aj'.jam_streak # aj.jam_streak
               => \/ win'.boundary
                  \/ aj_op' = "reset"
                  \/ aj_op' = "configure" /\ aj'.jam_streak = 0
        /\ NoBoundaryOpsKeepJamState ]_vars

(* a BY_TIME detector whose ring a packet just filled with a jammy window  *)
(* and that is still NOT_JAMMED, no aj_tick having run                     *)
C38_Witness ==
    /\ aj.cfg.window_mode = AJ_WINDOW_BY_TIME
    /\ aj_op = "register_packet"
    /\ PacketAtBoundary_AnyMode(aj)
    /\ is_window_jammy(aj)
    /\ aj.state = AJ_STATE_NOT_JAMMED
    /\ win.nbound = 0

(* C40: while the state remains JAMMED with a callback registered, every   *)
(* aj_register_packet call whose timestamp is at least                     *)
(* min_time_between_reco_ms after the previous fire invokes the callback   *)
(* again, and the fired suggestion carries the confidence and hint of the  *)
(* report computed in that same call.                                      *)
C40_JammedKeepsRecommending ==
    [][ ( /\ aj_op' = "register_packet"
          /\ aj.state = AJ_STATE_JAMMED
          /\ aj'.state = AJ_STATE_JAMMED
          /\ aj.hop_cb
          /\ hop.last_ms # NoFire
          /\ Sub32(clock', hop.last_ms) >= aj.cfg.min_time_between_reco_ms )
        => ( /\ hop'.fired
             /\ hop'.last_ms = clock'
             /\ aj'.last_report.when = clock'
             /\ hop'.sugg.recommend = 1
             /\ hop'.sugg.confidence = aj'.last_report.confidence
             /\ hop'.sugg.hop_aggressiveness_hint =
                    aj'.last_report.hop_aggressiveness_hint ) ]_vars

(* a second callback from a packet registered while JAMMED, exactly        *)
(* min_time_between_reco_ms after the first                                *)
C40_Witness ==
    /\ aj_op = "register_packet"
    /\ win.pre_state = AJ_STATE_JAMMED
    /\ aj.state = AJ_STATE_JAMMED
    /\ hop.fired
    /\ hop.prev_ms # NoFire
    /\ hop.last_ms = clock
    /\ Sub32(hop.last_ms, hop.prev_ms) = aj.cfg.min_time_between_reco_ms
    /\ aj.cfg.min_time_between_reco_ms > 0
    /\ hop.sugg.confidence = aj.last_report.confidence
    /\ hop.sugg.confidence > 0

(* C37: from any reachable detector state, for every valid configuration   *)
(* (jam_threshold_percent = 1 included), if from some point on only good   *)
(* packets are registered with timestamps that keep increasing, and        *)
(* aj_tick keeps being called, the state eventually becomes NOT_JAMMED     *)
(* without aj_reset.                                                       *)
C37_CleanLinkHeals ==
    (nops = MaxHealOps) ~> (aj.state = AJ_STATE_NOT_JAMMED)

(* C31: aj_configure resets ring usage (count, head, bad_count all 0) if   *)
(* and only if the effective ring capacity changed; it always sets         *)
(* jam_streak to 0 and window_start_ms to last_now_ms; and it leaves the   *)
(* jam state, last_jam_change_ms, last_reco_ms, the external-jam flag, the *)
(* cached report and the registered callback unchanged.                    *)
C31_ConfigureFrame ==
    [][ aj_op' = "configure" =>
          /\ IF aj'.capacity # aj.capacity
             THEN aj'.count = 0 /\ aj'.head = 0 /\ aj'.bad_count = 0
             ELSE /\ aj'.count = aj.count
                  /\ aj'.head = aj.head
                  /\ aj'.bad_count = aj.bad_count
          /\ aj'.jam_streak = 0
          /\ aj'.window_start_ms = aj.last_now_ms
          /\ aj'.state = aj.state
          /\ aj'.last_jam_change_ms = aj.last_jam_change_ms
          /\ aj'.last_reco_ms = aj.last_reco_ms
          /\ aj'.ext_jam_recent = aj.ext_jam_recent
          /\ aj'.ext_jam_since_ms = aj.ext_jam_since_ms
          /\ aj'.last_report = aj.last_report
          /\ aj'.hop_cb = aj.hop_cb ]_vars

(* a reconfigured context that kept its ring entries and its jam state *)
C31_Witness ==
    /\ aj_op = "configure"
    /\ aj.count > 0
    /\ aj.bad_count > 0
    /\ aj.state # AJ_STATE_NOT_JAMMED
    /\ aj.jam_streak = 0

(* the age limit of the external-jam flag as the claim states it *)
ExtJamLimit ==
    IF aj.cfg.window_mode = AJ_WINDOW_BY_TIME
    THEN aj.cfg.window_duration_ms ELSE 1000

(* C30: the external-jam flag set by aj_register_external_jam(t) stays set *)
(* through every later operation until an aj_tick(now) with                *)
(* now - t >= limit, where limit is window_duration_ms in BY_TIME mode and *)
(* 1000 ms in BY_COUNT mode; that tick clears it, and no operation other   *)
(* than such a tick or aj_reset clears it.                                 *)
C30_ExternalJamFlagAgesOnTick ==
    [][ /\ aj_op' = "register_external_jam" =>
              (aj'.ext_jam_recent = 1 /\ aj'.ext_jam_since_ms = clock')
        /\ (aj.ext_jam_recent = 1 /\ aj_op' # "register_external_jam") =>
              aj'.ext_jam_recent =
                 (IF aj_op' = "reset" THEN 0
                  ELSE IF /\ aj_op' = "tick"
                          /\ Sub32(clock', aj.ext_jam_since_ms) >= ExtJamLimit
                  THEN 0 ELSE 1) ]_vars

(* a BY_COUNT context whose flag a tick cleared 1000 ms after the jam *)
C30_Witness ==
    /\ aj_op = "tick"
    /\ aj.cfg.window_mode = AJ_WINDOW_BY_COUNT
    /\ aj.ext_jam_recent = 0
    /\ aj.ext_jam_since_ms > 0
    /\ Sub32(clock, aj.ext_jam_since_ms) >= 1000

(* the number of bad entries among the live ring entries *)
BadInRing(ctx) ==
    Cardinality({i \in LiveSlots(ctx) : ctx.entries[i].good = 0})

(* C2: within one Glock cycle, however many FHSSHopNextSynced calls the    *)
(* two radios make and in whatever order, the synced cursor advances       *)
(* exactly once, by 1 modulo the sequence length, and every call of the    *)
(* cycle returns the frequency of that post-advance cursor.                *)
C2_OneAdvancePerCycle ==
    (gl.K > 0) =>
        /\ gl.cyc_adv = (IF gl.calls > 0 THEN 1 ELSE 0)
        /\ FHSSptrSynced = (gl.base + gl.cyc_adv) % SeqCount
        /\ \A r \in gl.rets :
             /\ r.idx = (gl.base + 1) % SeqCount
             /\ r.freq = RadioFreq(r.radio, (gl.base + 1) % SeqCount,
                                   FHSSuseDualBand, FHSSusePrimaryFreqBand)

(* a cycle in which both radios called, three calls in all, on a sequence  *)
(* whose old and new slot give radio 1 different frequencies               *)
C2_Witness ==
    /\ gl.K > 0
    /\ gl.calls = MaxCalls
    /\ {r.radio : r \in gl.rets} = {FHSS_RADIO_1, FHSS_RADIO_2}
    /\ RadioFreq(FHSS_RADIO_1, gl.base, FHSSuseDualBand, FHSSusePrimaryFreqBand)
         # RadioFreq(FHSS_RADIO_1, FHSSptrSynced, FHSSuseDualBand,
                     FHSSusePrimaryFreqBand)

(* C3: when the main loop's call and a preempting interrupt's call run     *)
(* concurrently on an armed barrier, exactly one of them advances the      *)
(* cursor and disarms; no interleaving advances twice in a cycle or        *)
(* returns a pre-advance frequency.                                        *)
C3_OneWinnerUnderPreemption ==
    (gl.K > 0) =>
        /\ gl.cyc_adv <= 1
        /\ (FHSSHopCycleArmed # 0) <=> (gl.cyc_adv = 0)
        /\ FHSSptrSynced = (gl.base + gl.cyc_adv) % SeqCount
        /\ (gl.calls > 0 \/ main.pc = "computed") => gl.cyc_adv = 1
        /\ \A r \in gl.rets :
             /\ r.idx = (gl.base + 1) % SeqCount
             /\ r.freq = RadioFreq(r.radio, (gl.base + 1) % SeqCount,
                                   FHSSuseDualBand, FHSSusePrimaryFreqBand)

(* the interrupt's call for the other radio ran while the main loop's      *)
(* call, which found the barrier armed and advanced, had not yet returned  *)
C3_Witness ==
    /\ gl.K > 0
    /\ main.pc = "computed"
    /\ main.seen # 0
    /\ main.advanced
    /\ \E r \in gl.rets : r.by = "irq" /\ r.radio # main.radio

(* C4: across K cycles, each opened by FHSSBeginHopCycle and each with at  *)
(* least one FHSSHopNextSynced call, the synced cursor advances exactly K  *)
(* times in total and FHSSSyncEpoch increases by exactly K.                *)
C4_KCyclesKAdvances ==
    (gl.K > 0 /\ gl.all_used /\ gl.calls > 0) =>
        /\ gl.adv = gl.K
        /\ FHSSSyncEpoch = gl.K
        /\ FHSSptrSynced = (gl.first + gl.K) % SeqCount

(* the last of the cycles, all used, with calls of both radios in it *)
C4_Witness ==
    /\ gl.K = MaxCycles
    /\ gl.all_used
    /\ gl.calls >= 2
    /\ {r.radio : r \in gl.rets} = {FHSS_RADIO_1, FHSS_RADIO_2}


(* C5: after every detector operation, in both window modes, bad_count is  *)
(* the number of entries with good = 0 among the `count` live ring entries *)
(* (the slots preceding head), and count <= capacity.                      *)
C5_BadCountMatchesRing ==
    /\ aj.count <= aj.capacity
    /\ aj.bad_count = BadInRing(aj)

(* a BY_TIME ring from which a bad packet was pruned: its slot still holds *)
(* the bad entry, the one live entry is good and bad_count is back to 0    *)
C5_Witness ==
    /\ aj_op = "register_packet"
    /\ aj.cfg.window_mode = AJ_WINDOW_BY_TIME
    /\ aj.count = 1
    /\ aj.bad_count = 0
    /\ \E i \in DOMAIN aj.entries \ LiveSlots(aj) :
          aj.entries[i].good = 0 /\ aj.entries[i].ts > 0

(***************************************************************************)
(* Claims about the mode switch                                            *)
(***************************************************************************)
Normalised(enable) == IF enable # 0 THEN 1 ELSE 0

(* the last operation left the switch context and the callback untouched *)
SwUntouched == sw = sw_obs.pre /\ sw_obs.notes = << >>

(* C6: while controller_only is 1, aj_switch_set_mode_local with any valid *)
(* mode, the active one included, returns AJ_SW_RET_DENIED, changes none   *)
(* of enabled, mode, controller_only, last_change_ms and does not notify.  *)
C6_LocalModeDenied ==
    ( /\ sw_obs.op = "set_mode_local"
      /\ ~sw_obs.null
      /\ sw_obs.arg <= AJ_SWITCH_MODE_HIGH
      /\ sw_obs.pre.controller_only = 1 )
        => (sw_obs.ret = AJ_SW_RET_DENIED /\ SwUntouched)

(* a locked local request for the mode that is already active, with a      *)
(* callback registered                                                     *)
C6_Witness ==
    /\ sw_obs.op = "set_mode_local"
    /\ ~sw_obs.null
    /\ sw_obs.pre.controller_only = 1
    /\ sw_obs.pre.cb
    /\ sw_obs.arg = sw_obs.pre.mode
    /\ sw_obs.ret = AJ_SW_RET_DENIED

(* C7: controller_only influences aj_switch_set_mode_local only: the last  *)
(* call of aj_switch_set_mode_from_controller,                             *)
(* aj_switch_request_enable_from_controller or aj_switch_set_enabled gives *)
(* the same return code, (enabled, mode, last_change_ms) and notifications *)
(* as the same call on the context with controller_only flipped; under     *)
(* controller_only = 1 a controller-originated change to a different valid *)
(* value returns AJ_SW_RET_OK and is applied.                              *)
C7_ControllerOnlyOnlyLocksLocalMode ==
    (sw_obs.op \in {"set_mode_from_controller",
                    "request_enable_from_controller", "set_enabled"})
        => LET flipped == [sw_obs.pre EXCEPT !.controller_only = 1 - @]
               alt == SwitchApply(sw_obs.op, flipped, sw_obs.null,
                                  sw_obs.arg, sw_obs.when_ms)
               locked == sw_obs.pre.controller_only = 1 /\ ~sw_obs.null
           IN /\ alt.ret = sw_obs.ret
              /\ alt.notes = sw_obs.notes
              /\ alt.ctx.enabled = sw.enabled
              /\ alt.ctx.mode = sw.mode
              /\ alt.ctx.last_change_ms = sw.last_change_ms
              /\ ( /\ locked
                   /\ sw_obs.op = "set_mode_from_controller"
                   /\ sw_obs.arg <= AJ_SWITCH_MODE_HIGH
                   /\ sw_obs.arg # sw_obs.pre.mode )
                      => (sw_obs.ret = AJ_SW_RET_OK /\ sw.mode = sw_obs.arg)
              /\ ( /\ locked
                   /\ sw_obs.op = "request_enable_from_controller"
                   /\ Normalised(sw_obs.arg) # sw_obs.pre.enabled )
                      => ( /\ sw_obs.ret = AJ_SW_RET_OK
                           /\ sw.enabled = Normalised(sw_obs.arg) )

(* a controller mode change applied under the lock *)
C7_Witness ==
    /\ sw_obs.op = "set_mode_from_controller"
    /\ sw_obs.pre.controller_only = 1
    /\ sw_obs.ret = AJ_SW_RET_OK
    /\ sw.mode = AJ_SWITCH_MODE_HIGH
    /\ sw_obs.pre.mode # AJ_SWITCH_MODE_HIGH

(* the last call was a permitted set operation asking for the value the    *)
(* context already holds                                                   *)
SameValueRequested ==
    /\ ~sw_obs.null
    /\ \/ /\ sw_obs.op \in {"set_enabled", "request_enable_from_controller"}
          /\ Normalised(sw_obs.arg) = sw_obs.pre.enabled
       \/ /\ sw_obs.op = "set_mode_from_controller"
          /\ sw_obs.arg = sw_obs.pre.mode
       \/ /\ sw_obs.op = "set_mode_local"
          /\ sw_obs.pre.controller_only = 0
          /\ sw_obs.arg = sw_obs.pre.mode

(* C8: a permitted set operation whose requested value equals the current  *)
(* one (any non-zero enable counting as 1) returns AJ_SW_RET_NOCHANGE,     *)
(* leaves enabled, mode and last_change_ms unchanged and does not notify.  *)
C8_SameValueIsNoChange ==
    SameValueRequested => (sw_obs.ret = AJ_SW_RET_NOCHANGE /\ SwUntouched)

(* aj_switch_set_enabled(2) on an enabled switch *)
C8_Witness ==
    /\ sw_obs.op = "set_enabled"
    /\ ~sw_obs.null
    /\ sw_obs.arg = 2
    /\ sw_obs.pre.enabled = 1
    /\ sw_obs.pre.cb
    /\ sw_obs.ret = AJ_SW_RET_NOCHANGE

(* C9: with a notify callback registered, an operation that returns        *)
(* AJ_SW_RET_OK invokes it exactly once, with the post-change enabled and  *)
(* mode and the call's when_ms; an operation that returns NOCHANGE, DENIED *)
(* or INVALID, aj_switch_set_controller_only and the other void operations *)
(* do not invoke it.                                                       *)
C9_NotifyExactlyOnOk ==
    sw_obs.pre.cb
        => IF sw_obs.ret = AJ_SW_RET_OK
           THEN sw_obs.notes = << [enabled |-> sw.enabled, mode |-> sw.mode,
                                   when_ms |-> sw_obs.when_ms] >>
           ELSE sw_obs.notes = << >>

(* a controller enable request that changed enabled and was notified once *)
C9_Witness ==
    /\ sw_obs.pre.cb
    /\ sw_obs.op = "request_enable_from_controller"
    /\ sw_obs.ret = AJ_SW_RET_OK
    /\ Len(sw_obs.notes) = 1
    /\ sw_obs.notes[1].enabled = 1
    /\ sw_obs.when_ms > 0

(* C10: aj_switch_set_mode_local and aj_switch_set_mode_from_controller    *)
(* with a null context or a mode outside {AUTO, LOW, HIGH} return          *)
(* AJ_SW_RET_INVALID whatever controller_only is, change nothing and do    *)
(* not notify; aj_switch_set_enabled and                                   *)
(* aj_switch_request_enable_from_controller do so on a null context.       *)
C10_InvalidArguments ==
    ( \/ /\ sw_obs.op \in {"set_mode_local", "set_mode_from_controller"}
         /\ (sw_obs.null \/ sw_obs.arg > AJ_SWITCH_MODE_HIGH)
      \/ /\ sw_obs.op \in {"set_enabled", "request_enable_from_controller"}
         /\ sw_obs.null )
        => (sw_obs.ret = AJ_SW_RET_INVALID /\ SwUntouched)

(* an out-of-range local mode request on a locked switch *)
C10_Witness ==
    /\ sw_obs.op = "set_mode_local"
    /\ ~sw_obs.null
    /\ sw_obs.arg > AJ_SWITCH_MODE_HIGH
    /\ sw_obs.pre.controller_only = 1
    /\ sw_obs.pre.cb
    /\ sw_obs.ret = AJ_SW_RET_INVALID

(* what the last command byte asked for *)
CmdEnable == sw_obs.arg % 2
CmdMode ==
    LET m == (sw_obs.arg \div 2) % 4
    IN IF m = 3 THEN AJ_SWITCH_MODE_AUTO ELSE m
CmdChanges ==
    sw_obs.pre.enabled # CmdEnable \/ sw_obs.pre.mode # CmdMode

C39_RingInvariantUnderPreemption ==
    reset_pending = {} =>
        /\ aj.count <= aj.capacity
        /\ aj.bad_count = BadInRing(aj)

====
